---- MODULE Spec2Model ----
(***************************************************************************)
(* Model of the hasvk video-decode bridge: the per-session surface cache,  *)
(* the deferred decode queue of a command buffer and its execution at      *)
(* submit time, for the VDPAU bridge (anv_video_vdpau_bridge.c) and the    *)
(* VA-API bridge (anv_video_vaapi_bridge.c), and the lazily created        *)
(* process-wide VDPAU device (anv_vdpau_get_device).                       *)
(***************************************************************************)
EXTENDS Integers, Sequences, FiniteSets, TLC

(***************************************************************************)
(* Bounds of the model.                                                    *)
(***************************************************************************)
\* number of decode_frame calls in one run (also the number of command ids)
MaxDecodes == 2
\* number of Vulkan images the application decodes into / references
NumImages == 4
\* largest maxDpbSlots a session is created with
MaxDpbSlots == 3
\* largest referenceSlotCount of a decode
MaxRefs == 1
\* largest HASVK_MAX_FRAMES_PER_SUBMIT a build is configured with
MaxFrameCap == 1
\* number of threads calling anv_vdpau_get_device concurrently
NumThreads == 2
\* number of anv_vdpau_get_device calls each thread makes
MaxCalls == 2
\* number of calls made on the surface cache
MaxCacheOps == 5
\* the scenario of a session fed distinct destination images: the largest
\* maxDpbSlots, the number of images to choose from, the number fed
FeedDpbSlots == 4
NumFeedImages == 7
MaxFeeds == 6
\* number of decode_frame calls recorded with the state they started from
MaxRecords == 3

(***************************************************************************)
(* Program constants.                                                      *)
(***************************************************************************)
\* ((VdpVideoSurface)-1): the all-ones 32-bit pattern, which no handle the
\* backend hands out has; handles are only compared with it for equality.
\* VA_INVALID_SURFACE is the same pattern.
VDP_INVALID_HANDLE == -1
HASVK_MAX_SURFACE_CACHE_SIZE == 32
MinKeepCount == 3

Images == 1..NumImages
CmdIds == 1..MaxDecodes
MaxSurf == MaxDecodes * (1 + MaxRefs)
SurfIds == 1..MaxSurf
Threads == 1..NumThreads
\* the maxDpbSlots a session is created with: the smallest cache that holds a
\* reference, and the largest one of the model
DpbSlots == {1, MaxDpbSlots}

Min2(a, b) == IF a < b THEN a ELSE b

\* extent of an image: the last image has a different coded size than the others
ImageExtent(img) == IF img = NumImages THEN 2 ELSE 1
\* maxCodedExtent of the session: the extent of the largest image
MaxCodedExtent == ImageExtent(NumImages)

VARIABLES
    backend,      \* "vdpau" or "vaapi": the backend this build is configured with
    max_frames,   \* HASVK_MAX_FRAMES_PER_SUBMIT of this build
    session,      \* the video session's bridge state (struct anv_*_session)
    world,        \* the backend's objects: surfaces and decoders created/destroyed
    queue,        \* cmd_buffer->video.{vdpau,vaapi}_decodes
    ncmds,        \* number of decode_frame calls made so far
    pc,           \* "running", or "crashed" once the process has faulted
    hist,         \* what happened to each command (observations, never read by the code)
    ret,          \* the last call that returned, and its status
    vdp_device,   \* device->vdp_device
    mutex,        \* device->mutex: 0 or the thread holding it
    tpc,          \* position of each thread inside anv_vdpau_get_device
                  \* (anv_vaapi_get_display on the VA-API build)
    tret,         \* value each thread returned from it (or is about to return)
    xdpy,         \* display connections opened so far and open now, handles stored,
                  \* and the calls each thread has made
    va_display,   \* device->va_display (0 is NULL)
    vdpau_mutex,  \* device->vdpau_mutex: 0 or the thread holding it
    rpc,          \* position of each thread that works on the shared session
    raced,        \* observation: a decoder was created or destroyed during a render call
    pq            \* the software backend's presentation queues: the async queue,
                  \* the presentation thread(s), their sorted queue, the output
                  \* surfaces' status and the clock

bvars == <<backend, max_frames, session, world, queue, ncmds, pc, hist, ret>>
gvars == <<vdp_device, mutex, tpc, tret, xdpy>>
dvars == <<va_display, vdpau_mutex, rpc, raced, pq>>
vars == <<bvars, gvars, dvars>>

(***************************************************************************)
(* Backend objects.  Handles are never reused, so a handle names one       *)
(* surface (decoder) for ever; destroys[h] counts the destroy calls made   *)
(* on it (2 stands for "twice or more").                                   *)
(***************************************************************************)
SurfaceLive(w, h) == h # VDP_INVALID_HANDLE /\ h < w.nextSurf /\ w.destroys[h] = 0
DecoderLive(w, d) == d # 0 /\ d < w.nextDec /\ d \notin w.decDestroyed

\* vdp_video_surface_destroy / vaDestroySurfaces on one handle
DestroySurface(w, h) ==
    IF h = VDP_INVALID_HANDLE THEN w
    ELSE [w EXCEPT !.destroys[h] = Min2(@ + 1, 2)]

\* vdp_video_surface_destroy on every handle of a sequence, first to last
RECURSIVE DestroySurfaces(_, _)
DestroySurfaces(w, hs) ==
    IF hs = <<>> THEN w
    ELSE DestroySurfaces(DestroySurface(w, Head(hs)), Tail(hs))

\* vdp_decoder_destroy / vaDestroyContext
DestroyDecoder(w, d) == [w EXCEPT !.decDestroyed = @ \cup {d}]

(***************************************************************************)
(* Surface cache.  A bridge state S is [s |-> session, w |-> world].       *)
(***************************************************************************)
MapEntry(image, surf, fc) ==
    [image |-> image, surface |-> surf, last_used_frame |-> fc]

\* first index of the entry for image, 0 when there is none
RECURSIVE FindImage(_, _, _)
FindImage(map, image, i) ==
    IF i > Len(map) THEN 0
    ELSE IF map[i].image = image THEN i
    ELSE FindImage(map, image, i + 1)

\* first index of the entry holding surface surf, 0 when there is none
RECURSIVE FindSurface(_, _, _)
FindSurface(map, surf, i) ==
    IF i > Len(map) THEN 0
    ELSE IF map[i].surface = surf THEN i
    ELSE FindSurface(map, surf, i + 1)

\* the scan for the least recently used entry: a later entry replaces the
\* candidate only when its timestamp is strictly smaller
RECURSIVE LruScan(_, _, _, _)
LruScan(map, i, lru_index, oldest_frame) ==
    IF i > Len(map) THEN lru_index
    ELSE IF map[i].last_used_frame < oldest_frame
         THEN LruScan(map, i + 1, i, map[i].last_used_frame)
         ELSE LruScan(map, i + 1, lru_index, oldest_frame)

\* a scan that settles on the last entry of the array
LruIndex_last(map) == Len(map)
\* lines 574-582: the scan starts from entry 0
LruIndex(map) == LruScan(map, 2, 1, map[1].last_used_frame)

\* an insert that never looks for an entry of the image
anv_vdpau_add_surface_mapping_append(S, image, surf) ==
    [S EXCEPT !.s.frame_counter = @ + 1,
              !.s.surface_map = Append(@, MapEntry(image, surf, S.s.frame_counter + 1))]

anv_vdpau_add_surface_mapping(S, image, surf) ==
    LET fc  == S.s.frame_counter + 1
        map == S.s.surface_map
        hit == FindImage(map, image, 1)
    IN  IF hit # 0
        THEN [S EXCEPT !.s.frame_counter = fc,
                       !.s.surface_map[hit] = MapEntry(image, surf, fc)]
        ELSE IF Len(map) < S.s.surface_map_capacity
        THEN [S EXCEPT !.s.frame_counter = fc,
                       !.s.surface_map = Append(map, MapEntry(image, surf, fc))]
        ELSE LET lru == LruIndex(map)
             IN  [s |-> [S.s EXCEPT !.frame_counter = fc,
                                    !.surface_map[lru] = MapEntry(image, surf, fc)],
                  w |-> DestroySurface(S.w, map[lru].surface)]

\* the value anv_vdpau_lookup_surface returns
LookupSurface(s, image) ==
    LET hit == FindImage(s.surface_map, image, 1)
    IN  IF hit = 0 THEN VDP_INVALID_HANDLE ELSE s.surface_map[hit].surface

\* a lookup that leaves the timestamps alone
anv_vdpau_lookup_surface_pure(s, image) == s

\* the session after anv_vdpau_lookup_surface: a hit takes the current logical time
anv_vdpau_lookup_surface(s, image) ==
    LET hit == FindImage(s.surface_map, image, 1)
    IN  IF hit = 0 THEN s
        ELSE [s EXCEPT !.surface_map[hit].last_used_frame = s.frame_counter]

\* timestamps of the map, sorted in descending order (qsort with compare_uint64_desc)
RECURSIVE InsertDesc(_, _)
InsertDesc(sorted, v) ==
    IF sorted = <<>> THEN <<v>>
    ELSE IF v >= Head(sorted) THEN <<v>> \o sorted
    ELSE <<Head(sorted)>> \o InsertDesc(Tail(sorted), v)

RECURSIVE SortedFrames(_)
SortedFrames(map) ==
    IF map = <<>> THEN <<>>
    ELSE InsertDesc(SortedFrames(Tail(map)), Head(map).last_used_frame)

\* the entries the eviction loop removes, in array order
EvictedEntries(map, threshold) ==
    SelectSeq(map, LAMBDA e : e.last_used_frame < threshold)

SurfacesOf(entries) == [i \in 1..Len(entries) |-> entries[i].surface]

\* an eviction that takes keep_count as it is given
anv_vdpau_evict_old_surfaces_unclamped(S, keep_count_in) ==
    LET map  == S.s.surface_map
        keep == keep_count_in
    IN  IF Len(map) = 0 \/ Len(map) <= keep THEN S
        ELSE LET threshold == SortedFrames(map)[keep]
             IN  [s |-> [S.s EXCEPT !.surface_map =
                            SelectSeq(map, LAMBDA e : e.last_used_frame >= threshold)],
                  w |-> DestroySurfaces(S.w, SurfacesOf(EvictedEntries(map, threshold)))]

anv_vdpau_evict_old_surfaces(S, keep_count_in) ==
    LET map  == S.s.surface_map
        keep == IF keep_count_in < MinKeepCount THEN MinKeepCount ELSE keep_count_in
    IN  IF Len(map) = 0 \/ Len(map) <= keep THEN S
        ELSE LET threshold == SortedFrames(map)[keep]
             IN  [s |-> [S.s EXCEPT !.surface_map =
                            SelectSeq(map, LAMBDA e : e.last_used_frame >= threshold)],
                  w |-> DestroySurfaces(S.w, SurfacesOf(EvictedEntries(map, threshold)))]

\* an insert without the test of surface_map_size against the capacity
anv_vaapi_add_surface_mapping_unbounded(S, image, surf) ==
    LET hit == FindImage(S.s.surface_map, image, 1)
    IN  IF hit # 0
        THEN [S EXCEPT !.s.surface_map[hit].surface = surf]
        ELSE [S EXCEPT !.s.surface_map = Append(@, MapEntry(image, surf, 0))]

\* anv_vaapi_add_surface_mapping: no timestamps, and a full map drops the new entry
anv_vaapi_add_surface_mapping(S, image, surf) ==
    LET map == S.s.surface_map
        hit == FindImage(map, image, 1)
    IN  IF hit # 0
        THEN [S EXCEPT !.s.surface_map[hit].surface = surf]
        ELSE IF Len(map) < S.s.surface_map_capacity
        THEN [S EXCEPT !.s.surface_map = Append(map, MapEntry(image, surf, 0))]
        ELSE S

\* anv_vaapi_lookup_surface: a pure read
anv_vaapi_lookup_surface(s, image) == LookupSurface(s, image)

\* vdp_video_surface_create / vaCreateSurfaces: a fresh handle
CreateSurface(S) == [S EXCEPT !.w.nextSurf = @ + 1]
NewSurface(S) == S.w.nextSurf

(***************************************************************************)
(* anv_vdpau_decode_frame.  The inputs of a call: the destination image,   *)
(* the reference images (slots that carry a picture resource), and which   *)
(* call of the environment fails or which input is missing (fail).         *)
(***************************************************************************)
VdpauFailPoints ==
    {"none", "decoder_create", "surface_create", "params", "ref_alloc",
     "ref_surface_create", "sps_missing", "src_buffer", "mmap", "no_slices",
     "bitstream_alloc"}

RefLists == UNION {[1..n -> Images] : n \in 0..MaxRefs}

\* lines 1508-1548: lazy creation of the decoder, re-creation on a new extent
VdpauEnsureDecoder(S, dst, fail) ==
    LET s == S.s
        actual == ImageExtent(dst)
    IN  IF s.decoder_created /\ s.width = actual
        THEN [S |-> S, ok |-> TRUE]
        ELSE LET S1 == IF s.decoder_created
                       THEN [s |-> [s EXCEPT !.vdp_decoder = 0,
                                             !.decoder_created = FALSE,
                                             !.surface_map = <<>>],
                             w |-> DestroySurfaces(DestroyDecoder(S.w, s.vdp_decoder),
                                                   SurfacesOf(s.surface_map))]
                       ELSE S
                 S2 == [S1 EXCEPT !.s.width = actual]
             IN  IF fail = "decoder_create"
                 THEN [S |-> S2, ok |-> FALSE]
                 ELSE [S |-> [S2 EXCEPT !.s.vdp_decoder = S2.w.nextDec,
                                        !.s.decoder_created = TRUE,
                                        !.w.nextDec = @ + 1],
                       ok |-> TRUE]

\* lines 1552-1559 and 1592-1603: look the image up, create and map a surface on a miss
VdpauGetSurface(S, image, createFails) ==
    LET h  == LookupSurface(S.s, image)
        S1 == [S EXCEPT !.s = anv_vdpau_lookup_surface(S.s, image)]
    IN  IF h # VDP_INVALID_HANDLE THEN [S |-> S1, surf |-> h, ok |-> TRUE]
        ELSE IF createFails THEN [S |-> S1, surf |-> VDP_INVALID_HANDLE, ok |-> FALSE]
        ELSE [S |-> anv_vdpau_add_surface_mapping(CreateSurface(S1), image, NewSurface(S1)),
              surf |-> NewSurface(S1), ok |-> TRUE]

\* lines 1581-1606: the loop over the reference slots
RECURSIVE VdpauRefSurfaces(_, _, _, _)
VdpauRefSurfaces(S, refs, acc, fail) ==
    IF refs = <<>> THEN [S |-> S, ref_surfaces |-> acc, ok |-> TRUE]
    ELSE LET r == VdpauGetSurface(S, Head(refs), fail = "ref_surface_create")
         IN  IF ~r.ok THEN [S |-> r.S, ref_surfaces |-> acc, ok |-> FALSE]
             ELSE VdpauRefSurfaces(r.S, Tail(refs), Append(acc, r.surf), fail)

\* the session after the lookups of anv_vdpau_translate_h264_picture_params
RECURSIVE TranslateLookups(_, _)
TranslateLookups(s, refs) ==
    IF refs = <<>> THEN s
    ELSE TranslateLookups(anv_vdpau_lookup_surface(s, Head(refs)), Tail(refs))

anv_vdpau_translate_h264_picture_params(s, refs, fail) ==
    IF fail = "sps_missing" THEN s ELSE TranslateLookups(s, refs)

\* status of the failure returns that follow the translation (lines 1614-1646)
VdpauLateStatus(fail) ==
    CASE fail = "src_buffer"      -> "VK_ERROR_INITIALIZATION_FAILED"
      [] fail = "mmap"            -> "VK_ERROR_MEMORY_MAP_FAILED"
      [] fail = "no_slices"       -> "VK_ERROR_FORMAT_NOT_SUPPORTED"
      [] fail = "bitstream_alloc" -> "VK_ERROR_OUT_OF_HOST_MEMORY"
      [] OTHER                    -> "VK_SUCCESS"

NoCmd == [id |-> 0]

\* the whole of anv_vdpau_decode_frame: the bridge state it leaves, its status,
\* and the command it appends (NoCmd when it appends none)
VdpauDecode(S, id, dst, refs, fail) ==
    LET d == VdpauEnsureDecoder(S, dst, fail)
    IN  IF ~d.ok THEN [S |-> d.S, status |-> "VK_ERROR_INITIALIZATION_FAILED", cmd |-> NoCmd]
        ELSE
        LET t == VdpauGetSurface(d.S, dst, fail = "surface_create")
        IN  IF ~t.ok THEN [S |-> t.S, status |-> "VK_ERROR_INITIALIZATION_FAILED", cmd |-> NoCmd]
            ELSE IF fail = "params"
            THEN [S |-> t.S, status |-> "VK_ERROR_INITIALIZATION_FAILED", cmd |-> NoCmd]
            ELSE IF fail = "ref_alloc" /\ Len(refs) > 0
            THEN [S |-> t.S, status |-> "VK_ERROR_OUT_OF_HOST_MEMORY", cmd |-> NoCmd]
            ELSE
            LET r == VdpauRefSurfaces(t.S, refs, <<>>, fail)
            IN  IF ~r.ok
                THEN [S |-> r.S, status |-> "VK_ERROR_INITIALIZATION_FAILED", cmd |-> NoCmd]
                ELSE
                LET S3 == [r.S EXCEPT !.s =
                             anv_vdpau_translate_h264_picture_params(r.S.s, refs, fail)]
                IN  IF VdpauLateStatus(fail) # "VK_SUCCESS"
                    THEN [S |-> S3, status |-> VdpauLateStatus(fail), cmd |-> NoCmd]
                    ELSE [S |-> S3, status |-> "VK_SUCCESS",
                          cmd |-> [id |-> id,
                                   decoder |-> S3.s.vdp_decoder,
                                   target_surface |-> t.surf,
                                   ref_surfaces |-> r.ref_surfaces]]

(***************************************************************************)
(* anv_vaapi_decode_frame.                                                 *)
(***************************************************************************)
VaapiFailPoints ==
    {"none", "surface_create", "params", "ref_alloc", "ref_surface_create",
     "sps_missing", "pic_param_buf", "src_buffer", "mmap", "no_slices",
     "slice_alloc", "slice_buf"}

\* lines 596-628 and 679-719: look the image up, import and map a surface on a miss
VaapiGetSurface(S, image, importFails) ==
    LET h == anv_vaapi_lookup_surface(S.s, image)
    IN  IF h # VDP_INVALID_HANDLE THEN [S |-> S, surf |-> h, ok |-> TRUE, created |-> FALSE]
        ELSE IF importFails
        THEN [S |-> S, surf |-> VDP_INVALID_HANDLE, ok |-> FALSE, created |-> FALSE]
        ELSE [S |-> anv_vaapi_add_surface_mapping(CreateSurface(S), image, NewSurface(S)),
              surf |-> NewSurface(S), ok |-> TRUE, created |-> TRUE]

\* lines 665-737: the loop over the reference slots; on an import failure the
\* handles collected so far are destroyed (anv_vaapi_destroy_surfaces_with_logging)
RECURSIVE VaapiRefSurfaces(_, _, _, _)
VaapiRefSurfaces(S, refs, acc, fail) ==
    IF refs = <<>> THEN [S |-> S, ref_surfaces |-> acc, ok |-> TRUE]
    ELSE LET r == VaapiGetSurface(S, Head(refs), fail = "ref_surface_create")
         IN  IF ~r.ok
             THEN [S |-> [r.S EXCEPT !.w = DestroySurfaces(r.S.w, acc)],
                   ref_surfaces |-> acc, ok |-> FALSE]
             ELSE VaapiRefSurfaces(r.S, Tail(refs), Append(acc, r.surf), fail)

\* status of the failure returns that follow the reference loop (lines 746-897)
VaapiLateStatus(fail) ==
    CASE fail = "sps_missing"   -> "VK_ERROR_INITIALIZATION_FAILED"
      [] fail = "pic_param_buf" -> "VK_ERROR_INITIALIZATION_FAILED"
      [] fail = "src_buffer"    -> "VK_ERROR_INITIALIZATION_FAILED"
      [] fail = "mmap"          -> "VK_ERROR_MEMORY_MAP_FAILED"
      [] fail = "no_slices"     -> "VK_ERROR_FORMAT_NOT_SUPPORTED"
      [] fail = "slice_alloc"   -> "VK_ERROR_OUT_OF_HOST_MEMORY"
      [] fail = "slice_buf"     -> "VK_ERROR_INITIALIZATION_FAILED"
      [] OTHER                  -> "VK_SUCCESS"

\* the whole of anv_vaapi_decode_frame
VaapiDecode(S, id, dst, refs, fail) ==
    LET t == VaapiGetSurface(S, dst, fail = "surface_create")
    IN  IF ~t.ok
        THEN [S |-> t.S, status |-> "VK_ERROR_VIDEO_PICTURE_LAYOUT_NOT_SUPPORTED_KHR",
              cmd |-> NoCmd]
        ELSE IF fail = "params"
        THEN [S |-> t.S, status |-> "VK_ERROR_INITIALIZATION_FAILED", cmd |-> NoCmd]
        ELSE IF fail = "ref_alloc" /\ Len(refs) > 0
        THEN [S |-> IF t.created THEN [t.S EXCEPT !.w = DestroySurface(t.S.w, t.surf)]
                    ELSE t.S,
              status |-> "VK_ERROR_OUT_OF_HOST_MEMORY", cmd |-> NoCmd]
        ELSE
        LET r == VaapiRefSurfaces(t.S, refs, <<>>, fail)
        IN  IF ~r.ok
            THEN [S |-> IF t.created THEN [r.S EXCEPT !.w = DestroySurface(r.S.w, t.surf)]
                        ELSE r.S,
                  status |-> "VK_ERROR_VIDEO_PICTURE_LAYOUT_NOT_SUPPORTED_KHR",
                  cmd |-> NoCmd]
            ELSE IF VaapiLateStatus(fail) # "VK_SUCCESS"
            THEN [S |-> r.S, status |-> VaapiLateStatus(fail), cmd |-> NoCmd]
            ELSE [S |-> r.S, status |-> "VK_SUCCESS",
                  cmd |-> [id |-> id,
                           decoder |-> r.S.s.vdp_decoder,
                           target_surface |-> t.surf,
                           ref_surfaces |-> r.ref_surfaces]]

(***************************************************************************)
(* Execution of the deferred decodes at queue submit.                      *)
(* hist records, per command id: calls (the ids handed to the backend's    *)
(* render entry point, in call order), ok (render succeeded), got (the     *)
(* picture was synchronised on and reached the destination image),        *)
(* skipped (dropped by the frame cap), released (how often the command's   *)
(* allocations were released) and batch (the ids the last submission found *)
(* in the queue).                                                          *)
(***************************************************************************)
\* a queue that takes the finished command at its head
QueueAppend_front(q, cmd) == <<cmd>> \o q
\* util_dynarray_append of the finished command
QueueAppend(q, cmd) == Append(q, cmd)

\* a queue that is left as it is
ClearQueue_keep(q) == q
\* util_dynarray_clear
ClearQueue(q) == <<>>

IdsOf(q) == {q[i].id : i \in 1..Len(q)}

\* a frame count that is one short when the cap does not apply
FramesToProcess_short(total, max) ==
    IF max = 0 \/ total <= max THEN total - 1 ELSE max
\* lines 1727-1738
FramesToProcess(total, max) ==
    IF max = 0 \/ total <= max THEN total ELSE max

\* an execute that drops nothing
SkipCount_none(total, max) == 0
\* lines 1727-1738
SkipCount(total, max) ==
    IF max = 0 \/ total <= max THEN 0 ELSE total - FramesToProcess(total, max)

\* vdp_decoder_render / vaBeginPicture..vaEndPicture: the backend rejects a
\* decoder or target handle that is not alive; envFails is any other failure
RenderOk(w, cmd, envFails) ==
    ~envFails /\ DecoderLive(w, cmd.decoder) /\ SurfaceLive(w, cmd.target_surface)

\* a render loop that goes on after a failed render call
VdpauRenderLoopContinues_always(render_ok) == TRUE
\* the break of the render loop (lines 1782-1785): the loop goes on after a
\* render call exactly when that call succeeded
VdpauRenderLoopContinues(render_ok) == render_ok

\* phase 1 (lines 1760-1788): frame_index i (1-based), last is the index of
\* the last frame to process, failAt the command the environment fails
RECURSIVE VdpauRenderLoop(_, _, _, _, _, _)
VdpauRenderLoop(w, q, i, last, failAt, h) ==
    IF i > last \/ i > Len(q) THEN [hist |-> h, result |-> "VK_SUCCESS"]
    ELSE LET called == [h EXCEPT !.calls = Append(@, q[i].id)]
             ok     == RenderOk(w, q[i], i = failAt)
             h1     == IF ok THEN [called EXCEPT !.ok = @ \cup {q[i].id}] ELSE called
             rest   == VdpauRenderLoop(w, q, i + 1, last, failAt, h1)
         IN  IF VdpauRenderLoopContinues(ok)
             THEN [rest EXCEPT !.result = IF ok THEN @ ELSE "VK_ERROR_UNKNOWN"]
             ELSE [hist |-> h1, result |-> "VK_ERROR_UNKNOWN"]

CopyOutcomes == {"dmabuf", "cpu", "cpu_fail", "oom"}

\* a CPU copy that never succeeds
anv_vdpau_copy_surface_to_image_never(w, surf, envFails) == "VK_ERROR_UNKNOWN"

\* anv_vdpau_copy_surface_to_image: reading the bits of a dead surface fails
anv_vdpau_copy_surface_to_image(w, surf, envFails) ==
    IF ~envFails /\ SurfaceLive(w, surf) THEN "VK_SUCCESS" ELSE "VK_ERROR_UNKNOWN"

\* anv_vdpau_copy_surface_to_image_dmabuf: the GPU copy, or one of the
\* fallbacks to the CPU copy; a failed import with OUT_OF_DEVICE_MEMORY
\* evicts first (lines 848-861)
anv_vdpau_copy_surface_to_image_dmabuf(S, surf, outcome) ==
    IF outcome = "dmabuf" THEN [S |-> S, result |-> "VK_SUCCESS"]
    ELSE IF outcome = "oom"
    THEN LET keep_count == IF S.s.surface_map_capacity > 2
                           THEN S.s.surface_map_capacity - 2 ELSE 3
             S1 == anv_vdpau_evict_old_surfaces(S, keep_count)
         IN  [S |-> S1, result |-> anv_vdpau_copy_surface_to_image(S1.w, surf, FALSE)]
    ELSE [S |-> S, result |-> anv_vdpau_copy_surface_to_image(S.w, surf, outcome = "cpu_fail")]

\* phase 2 (lines 1817-1854)
RECURSIVE VdpauCopyLoop(_, _, _, _, _, _, _)
VdpauCopyLoop(S, q, i, last, outcomes, h, result) ==
    IF i > last \/ i > Len(q) THEN [S |-> S, hist |-> h, result |-> result]
    ELSE IF FindSurface(S.s.surface_map, q[i].target_surface, 1) = 0
    THEN VdpauCopyLoop(S, q, i + 1, last, outcomes, h, result)
    ELSE LET c == anv_vdpau_copy_surface_to_image_dmabuf(S, q[i].target_surface, outcomes[i])
         IN  VdpauCopyLoop(c.S, q, i + 1, last, outcomes,
                 IF c.result = "VK_SUCCESS" THEN [h EXCEPT !.got = @ \cup {q[i].id}] ELSE h,
                 IF c.result # "VK_SUCCESS" /\ result = "VK_SUCCESS" THEN c.result ELSE result)

\* the cleanup of one command: its allocations are released once more
ReleaseCmd(h, id) == [h EXCEPT !.released[id] = Min2(@ + 1, 2)]

\* phase 3 (lines 1860-1875): every command of the queue
RECURSIVE VdpauCleanup(_, _)
VdpauCleanup(h, q) ==
    IF q = <<>> THEN h ELSE VdpauCleanup(ReleaseCmd(h, Head(q).id), Tail(q))

\* the whole of anv_vdpau_execute_deferred_decodes on a non-empty queue
VdpauExecute(S, q, max, failAt, outcomes, h0) ==
    LET total == Len(q)
        frames_to_process == FramesToProcess(total, max)
        skip_count == SkipCount(total, max)
        h     == [h0 EXCEPT !.batch = IdsOf(q),
                            !.skipped = @ \cup {q[i].id : i \in 1..skip_count}]
        last  == skip_count + frames_to_process
        p1    == VdpauRenderLoop(S.w, q, skip_count + 1, last, failAt, h)
        p2    == IF p1.result # "VK_SUCCESS"
                 THEN [S |-> S, hist |-> p1.hist, result |-> p1.result]
                 ELSE VdpauCopyLoop(S, q, skip_count + 1, last, outcomes, p1.hist, "VK_SUCCESS")
    IN  [S |-> p2.S, hist |-> VdpauCleanup(p2.hist, q), result |-> p2.result,
         queue |-> ClearQueue(q)]

VaapiOutcomes == {"ok", "render_fail", "sync_fail"}

\* the break after cleanup_cmd (lines 1555-1557): the loop goes on exactly
\* when result is still VK_SUCCESS
VaapiLoopContinues(result) == result = "VK_SUCCESS"

\* the loop of anv_vaapi_execute_deferred_decodes (lines 1348-1558): begin,
\* render and end the picture, sync (a failed vaSyncSurface is only logged),
\* release the command at cleanup_cmd, stop on the first error
RECURSIVE VaapiExecLoop(_, _, _, _, _)
VaapiExecLoop(w, q, i, outcomes, h) ==
    IF i > Len(q) THEN [hist |-> h, result |-> "VK_SUCCESS"]
    ELSE LET called == [h EXCEPT !.calls = Append(@, q[i].id)]
             ok     == RenderOk(w, q[i], outcomes[i] = "render_fail")
             synced == ok /\ outcomes[i] # "sync_fail"
             h1     == IF ok THEN [called EXCEPT !.ok = @ \cup {q[i].id}] ELSE called
             h2     == IF synced THEN [h1 EXCEPT !.got = @ \cup {q[i].id}] ELSE h1
             h3     == ReleaseCmd(h2, q[i].id)
             result == IF ok THEN "VK_SUCCESS" ELSE "VK_ERROR_UNKNOWN"
             rest   == VaapiExecLoop(w, q, i + 1, outcomes, h3)
         IN  IF VaapiLoopContinues(result)
             THEN [rest EXCEPT !.result = IF ok THEN @ ELSE "VK_ERROR_UNKNOWN"]
             ELSE [hist |-> h3, result |-> result]

\* anv_vaapi_execute_deferred_decodes once the display is there
VaapiExecute(S, q, outcomes, h0) ==
    LET r == VaapiExecLoop(S.w, q, 1, outcomes, [h0 EXCEPT !.batch = IdsOf(q)])
    IN  [S |-> S, hist |-> r.hist, result |-> r.result, queue |-> ClearQueue(q)]

(***************************************************************************)
(* The bridge as a state machine: one session, one command buffer.         *)
(***************************************************************************)
NoSession ==
    [state |-> "none", decoder_created |-> FALSE, vdp_decoder |-> 0, width |-> 0,
     surface_map |-> <<>>, surface_map_capacity |-> 0, frame_counter |-> 0,
     \* the cached staging buffers of the CPU copy (0 is NULL), sizes in pages
     linear_y_buffer |-> 0, linear_y_buffer_size |-> 0,
     linear_uv_buffer |-> 0, linear_uv_buffer_size |-> 0]

NoHist ==
    [calls |-> <<>>, ok |-> {}, got |-> {}, skipped |-> {},
     released |-> [id \in CmdIds |-> 0], batch |-> {}]

Bridge == [s |-> session, w |-> world]

\* a cold device: no handle, nobody inside anv_vdpau_get_device
GdIdle ==
    /\ vdp_device = VDP_INVALID_HANDLE
    /\ mutex = 0
    /\ tpc = [t \in Threads |-> "idle"]
    /\ tret = [t \in Threads |-> VDP_INVALID_HANDLE]
    /\ xdpy = [opened |-> 0, open |-> 0, stored |-> 0,
               calls |-> [t \in Threads |-> 0]]

\* no VA display, nobody holds device->vdpau_mutex or works on the session
\* presentation queues created for the presentation model
NumPq == 2
\* vdpPresentationQueueDisplay calls made; each one queues a surface of its own
MaxDisplays == 3
OutputSurfaces == 1..MaxDisplays
\* the clock advances in steps of half a microsecond, MaxTicks times
MaxTicks == 3
NsPerUs == 1000
TickNs == NsPerUs \div 2
\* the presentation thread has not run yet
NoIteration == [op |-> "none", q |-> <<>>, now |-> 0, shown |-> 0, dropped |-> {}]

\* no presentation queue was ever created: async_q is NULL (line 33)
NoPq ==
    [async_q  |-> 0,                           \* the global async_q (0 is NULL)
     queues   |-> 0,                           \* g_async_queue_new calls so far
     threads  |-> 0,                           \* presentation threads started
     handles  |-> 0,                           \* presentation queues inserted
     cpc      |-> [t \in Threads |-> "idle"],  \* position in vdpPresentationQueueCreate
     calls    |-> [t \in Threads |-> 0],       \* calls each thread has made
     status   |-> [t \in Threads |-> "none"],  \* VdpStatus each thread returned
     live     |-> {},                          \* presentation queue handles not expunged
     compositor_detected |-> -1,               \* -1 = not checked, 0 = no, 1 = yes
     aq       |-> <<>>,                        \* the tasks in async_q, oldest first
     int_q    |-> <<>>,                        \* the presentation thread's sorted queue
     surf     |-> [s \in OutputSurfaces |-> "IDLE"],  \* surfData->status
     now      |-> 0,                           \* CLOCK_MONOTONIC, in nanoseconds
     displays |-> 0,                           \* vdpPresentationQueueDisplay calls so far
     shown    |-> <<>>,                        \* surfaces displayed, in order
     last     |-> NoIteration]                 \* the presentation thread's last iteration

DvIdle ==
    /\ va_display = 0
    /\ vdpau_mutex = 0
    /\ rpc = [t \in Threads |-> "idle"]
    /\ raced = FALSE
    /\ pq = NoPq

\* no session, an empty command buffer
BridgeIdle ==
    /\ session = NoSession
    /\ world = [nextSurf |-> 1, destroys |-> [h \in SurfIds |-> 0],
                nextDec |-> 1, decDestroyed |-> {}, va_display |-> FALSE]
    /\ queue = <<>>
    /\ ncmds = 0
    /\ pc = "running"
    /\ hist = NoHist
    /\ ret = [op |-> "none", status |-> "VK_SUCCESS"]

Init ==
    /\ backend \in {"vdpau", "vaapi"}
    /\ max_frames \in 0..MaxFrameCap
    /\ backend = "vaapi" => max_frames = 0
    /\ BridgeIdle
    /\ GdIdle
    /\ DvIdle

\* anv_vdpau_session_create (called by anv_CreateVideoSessionKHR)
anv_vdpau_session_create ==
    /\ pc = "running" /\ backend = "vdpau" /\ session.state = "none"
    /\ \E maxDpbSlots \in DpbSlots, ok \in BOOLEAN :
         /\ session' = IF ok
                       THEN [NoSession EXCEPT
                               !.state = "alive",
                               !.surface_map_capacity =
                                   Min2(maxDpbSlots + 1, HASVK_MAX_SURFACE_CACHE_SIZE)]
                       ELSE session
         /\ ret' = [op |-> "create",
                    status |-> IF ok THEN "VK_SUCCESS" ELSE "VK_ERROR_INITIALIZATION_FAILED"]
    /\ UNCHANGED <<backend, max_frames, world, queue, ncmds, pc, hist, gvars, dvars>>

\* anv_vaapi_session_create: the display, then the config and the context
anv_vaapi_session_create ==
    /\ pc = "running" /\ backend = "vaapi" /\ session.state = "none"
    /\ \E maxDpbSlots \in DpbSlots, fail \in {"none", "display", "context"} :
         /\ world' = IF fail = "display" THEN world
                     ELSE IF fail = "context" THEN [world EXCEPT !.va_display = TRUE]
                     ELSE [world EXCEPT !.va_display = TRUE, !.nextDec = @ + 1]
         /\ session' = IF fail = "none"
                       THEN [NoSession EXCEPT
                               !.state = "alive",
                               !.decoder_created = TRUE,
                               !.vdp_decoder = world.nextDec,
                               !.width = MaxCodedExtent,
                               !.surface_map_capacity = maxDpbSlots + 1]
                       ELSE session
         /\ ret' = [op |-> "create",
                    status |-> IF fail = "none" THEN "VK_SUCCESS"
                               ELSE "VK_ERROR_INITIALIZATION_FAILED"]
    /\ UNCHANGED <<backend, max_frames, queue, ncmds, pc, hist, gvars, dvars>>

\* what the environment does to one submission: nothing, or one call on the
\* command at position at fails or takes the path named by kind
ExecEvents(n, kinds) ==
    {[at |-> 0, kind |-> "none"]} \cup
    {[at |-> i, kind |-> k] : i \in 1..n, k \in kinds \cup {"render_fail"}}

FailAt(ev) == IF ev.kind = "render_fail" THEN ev.at ELSE 0

\* vkCmdDecodeVideoKHR on the VDPAU build: anv_vdpau_decode_frame
anv_vdpau_decode_frame ==
    /\ pc = "running" /\ backend = "vdpau" /\ session.state = "alive"
    /\ ncmds < MaxDecodes
    /\ \E dst \in Images, refs \in RefLists, fail \in VdpauFailPoints :
         LET r == VdpauDecode(Bridge, ncmds + 1, dst, refs, fail)
         IN  /\ session' = r.S.s
             /\ world' = r.S.w
             /\ queue' = IF r.cmd.id = 0 THEN queue ELSE QueueAppend(queue, r.cmd)
             /\ ret' = [op |-> "decode", status |-> r.status]
    /\ ncmds' = ncmds + 1
    /\ UNCHANGED <<backend, max_frames, pc, hist, gvars, dvars>>

\* a decode_frame that hands its command to the backend while recording
anv_vaapi_decode_frame_eager ==
    /\ pc = "running" /\ backend = "vaapi" /\ session.state = "alive"
    /\ ncmds < MaxDecodes
    /\ \E dst \in Images, refs \in RefLists, fail \in VaapiFailPoints :
         LET r == VaapiDecode(Bridge, ncmds + 1, dst, refs, fail)
         IN  /\ session' = r.S.s
             /\ world' = r.S.w
             /\ queue' = IF r.cmd.id = 0 THEN queue ELSE QueueAppend(queue, r.cmd)
             /\ hist' = IF r.cmd.id = 0 THEN hist
                        ELSE [hist EXCEPT !.calls = Append(@, r.cmd.id)]
             /\ ret' = [op |-> "decode", status |-> r.status]
    /\ ncmds' = ncmds + 1
    /\ UNCHANGED <<backend, max_frames, pc, gvars, dvars>>

\* vkCmdDecodeVideoKHR on the VA-API build: anv_vaapi_decode_frame
anv_vaapi_decode_frame ==
    /\ pc = "running" /\ backend = "vaapi" /\ session.state = "alive"
    /\ ncmds < MaxDecodes
    /\ \E dst \in Images, refs \in RefLists, fail \in VaapiFailPoints :
         LET r == VaapiDecode(Bridge, ncmds + 1, dst, refs, fail)
         IN  /\ session' = r.S.s
             /\ world' = r.S.w
             /\ queue' = IF r.cmd.id = 0 THEN queue ELSE QueueAppend(queue, r.cmd)
             /\ ret' = [op |-> "decode", status |-> r.status]
    /\ ncmds' = ncmds + 1
    /\ UNCHANGED <<backend, max_frames, pc, hist, gvars, dvars>>

\* anv_vdpau_execute_deferred_decodes at queue submit.  On a queue whose
\* session has been freed the read of decode_cmd->session (line 1775) is a
\* use after free: the process faults, or the stale function pointer is
\* still read and the call is made on the destroyed decoder.
anv_vdpau_execute_deferred_decodes ==
    /\ pc = "running" /\ backend = "vdpau"
    /\ IF queue = <<>>
       THEN /\ ret' = [op |-> "execute", status |-> "VK_SUCCESS"]
            /\ hist' = [hist EXCEPT !.batch = IdsOf(queue)]
            /\ UNCHANGED <<session, world, queue, pc>>
       ELSE \/ /\ session.state = "destroyed"
               /\ pc' = "crashed"
               /\ UNCHANGED <<session, world, queue, hist, ret>>
            \/ \E ev \in ExecEvents(Len(queue), CopyOutcomes \ {"dmabuf"}) :
                 LET r == VdpauExecute(Bridge, queue, max_frames, FailAt(ev),
                                       [i \in 1..Len(queue) |->
                                          IF i = ev.at /\ ev.kind # "render_fail"
                                          THEN ev.kind ELSE "dmabuf"],
                                       hist)
                 IN  /\ session' = r.S.s
                     /\ world' = r.S.w
                     /\ queue' = r.queue
                     /\ hist' = r.hist
                     /\ ret' = [op |-> "execute", status |-> r.result]
                     /\ pc' = pc
    /\ UNCHANGED <<backend, max_frames, ncmds, gvars, dvars>>

\* anv_vaapi_execute_deferred_decodes at queue submit
anv_vaapi_execute_deferred_decodes ==
    /\ pc = "running" /\ backend = "vaapi"
    /\ \E display_ok \in BOOLEAN, ev \in ExecEvents(Len(queue), {"sync_fail"}) :
         IF ~world.va_display /\ ~display_ok
         THEN /\ ret' = [op |-> "execute", status |-> "VK_ERROR_INITIALIZATION_FAILED"]
              /\ hist' = [hist EXCEPT !.batch = IdsOf(queue)]
              /\ UNCHANGED <<session, world, queue>>
         ELSE LET r == VaapiExecute([s |-> session,
                                     w |-> [world EXCEPT !.va_display = TRUE]],
                                    queue,
                                    [i \in 1..Len(queue) |->
                                       IF i = ev.at THEN ev.kind ELSE "ok"],
                                    hist)
              IN  /\ session' = r.S.s
                  /\ world' = r.S.w
                  /\ queue' = r.queue
                  /\ hist' = r.hist
                  /\ ret' = [op |-> "execute", status |-> r.result]
    /\ UNCHANGED <<backend, max_frames, ncmds, pc, gvars, dvars>>

\* anv_DestroyVideoSessionKHR on the VDPAU build: anv_vdpau_session_destroy
\* destroys the mapped surfaces and the decoder and frees the session
anv_vdpau_session_destroy ==
    /\ pc = "running" /\ backend = "vdpau" /\ session.state = "alive"
    /\ world' = LET w1 == DestroySurfaces(world, SurfacesOf(session.surface_map))
                IN  IF session.vdp_decoder # 0
                    THEN DestroyDecoder(w1, session.vdp_decoder) ELSE w1
    /\ session' = [session EXCEPT !.state = "destroyed"]
    /\ ret' = [op |-> "destroy", status |-> "VK_SUCCESS"]
    /\ UNCHANGED <<backend, max_frames, queue, ncmds, pc, hist, gvars, dvars>>

\* anv_DestroyVideoSessionKHR on the VA-API build: anv_vaapi_session_destroy
\* destroys the mapped surfaces and the context and frees the session
anv_vaapi_session_destroy ==
    /\ pc = "running" /\ backend = "vaapi" /\ session.state = "alive"
    /\ world' = DestroyDecoder(DestroySurfaces(world, SurfacesOf(session.surface_map)),
                               session.vdp_decoder)
    /\ session' = [session EXCEPT !.state = "destroyed"]
    /\ ret' = [op |-> "destroy", status |-> "VK_SUCCESS"]
    /\ UNCHANGED <<backend, max_frames, queue, ncmds, pc, hist, gvars, dvars>>

Next ==
    \/ anv_vdpau_session_create
    \/ anv_vaapi_session_create
    \/ anv_vdpau_decode_frame
    \/ anv_vaapi_decode_frame
    \/ anv_vdpau_execute_deferred_decodes
    \/ anv_vaapi_execute_deferred_decodes
    \/ anv_vdpau_session_destroy
    \/ anv_vaapi_session_destroy

Spec == Init /\ [][Next]_vars

(***************************************************************************)
(* anv_vdpau_get_device called by several threads on one cold device.      *)
(* A thread is at "idle" (outside the function), "lock" (about to take     *)
(* device->mutex), "check" (holds the mutex, before the second check),     *)
(* "init" (before XOpenDisplay), "create" (display open, before            *)
(* vdp_device_create_x11) or "publish" (handle stored, before the unlock). *)
(***************************************************************************)
\* a second check that never finds the handle
DoubleCheck_never(v) == FALSE
\* the check of device->vdp_device made again under the mutex (line 296)
DoubleCheck(v) == v # VDP_INVALID_HANDLE

\* pthread_mutex_unlock and return of value v
GdReturn(t, v) ==
    /\ tpc' = [tpc EXCEPT ![t] = "idle"]
    /\ tret' = [tret EXCEPT ![t] = v]
    /\ mutex' = IF mutex = t THEN 0 ELSE mutex

\* entry and the unlocked check (lines 289-290)
anv_vdpau_get_device_enter(t) ==
    /\ tpc[t] = "idle" /\ xdpy.calls[t] < MaxCalls
    /\ xdpy' = [xdpy EXCEPT !.calls[t] = @ + 1]
    /\ IF vdp_device # VDP_INVALID_HANDLE
       THEN GdReturn(t, vdp_device)
       ELSE /\ tpc' = [tpc EXCEPT ![t] = "lock"]
            /\ UNCHANGED <<tret, mutex>>
    /\ UNCHANGED <<vdp_device, bvars, dvars>>

\* pthread_mutex_lock (line 293)
anv_vdpau_get_device_lock(t) ==
    /\ tpc[t] = "lock" /\ mutex = 0
    /\ mutex' = t
    /\ tpc' = [tpc EXCEPT ![t] = "check"]
    /\ UNCHANGED <<vdp_device, tret, xdpy, bvars, dvars>>

\* the second check (lines 296-299)
anv_vdpau_get_device_check(t) ==
    /\ tpc[t] = "check"
    /\ IF DoubleCheck(vdp_device)
       THEN GdReturn(t, vdp_device)
       ELSE /\ tpc' = [tpc EXCEPT ![t] = "init"]
            /\ UNCHANGED <<tret, mutex>>
    /\ UNCHANGED <<vdp_device, xdpy, bvars, dvars>>

\* dlopen of libX11, dlsym and XOpenDisplay (lines 301-325)
anv_vdpau_get_device_open_display(t) ==
    /\ tpc[t] = "init"
    /\ \E ok \in BOOLEAN :
         IF ok
         THEN /\ xdpy' = [xdpy EXCEPT !.opened = @ + 1, !.open = @ + 1]
              /\ tpc' = [tpc EXCEPT ![t] = "create"]
              /\ UNCHANGED <<tret, mutex>>
         ELSE /\ GdReturn(t, VDP_INVALID_HANDLE)
              /\ UNCHANGED xdpy
    /\ UNCHANGED <<vdp_device, bvars, dvars>>

\* dlopen of libvdpau, dlsym and vdp_device_create_x11 (lines 330-368), and
\* the store of the handle (line 371); a failure closes the display
anv_vdpau_get_device_create(t) ==
    /\ tpc[t] = "create"
    /\ \E ok \in BOOLEAN :
         IF ok
         THEN /\ vdp_device' = xdpy.stored + 1
              /\ xdpy' = [xdpy EXCEPT !.stored = @ + 1]
              /\ tpc' = [tpc EXCEPT ![t] = "publish"]
              /\ UNCHANGED <<tret, mutex>>
         ELSE /\ xdpy' = [xdpy EXCEPT !.open = @ - 1]
              /\ GdReturn(t, VDP_INVALID_HANDLE)
              /\ UNCHANGED vdp_device
    /\ UNCHANGED <<bvars, dvars>>

\* the remaining stores, the unlock and the return (lines 372-378)
anv_vdpau_get_device_publish(t) ==
    /\ tpc[t] = "publish"
    /\ GdReturn(t, vdp_device)
    /\ UNCHANGED <<vdp_device, xdpy, bvars, dvars>>

InitGetDevice ==
    /\ backend = "vdpau"
    /\ max_frames = 0
    /\ BridgeIdle
    /\ GdIdle
    /\ DvIdle

NextGetDevice ==
    \E t \in Threads :
        \/ anv_vdpau_get_device_enter(t)
        \/ anv_vdpau_get_device_lock(t)
        \/ anv_vdpau_get_device_check(t)
        \/ anv_vdpau_get_device_open_display(t)
        \/ anv_vdpau_get_device_create(t)
        \/ anv_vdpau_get_device_publish(t)

SpecGetDevice == InitGetDevice /\ [][NextGetDevice]_vars

(***************************************************************************)
(* Properties.                                                             *)
(***************************************************************************)
\* the ids handed to the backend's render entry point so far
Called == {hist.calls[i] : i \in 1..Len(hist.calls)}

\* the commands whose render call failed
RenderFailed == Called \ hist.ok

\* execute_deferred has just returned
ExecuteReturned == ret.op = "execute"

\* C1: while the session lives, every surface that a queued, not yet executed
\* command names as its target or as one of its references is alive (was
\* not destroyed by an eviction or a decoder rebuild).
C1_PendingSurfacesAlive ==
    session.state = "alive" =>
        \A i \in 1..Len(queue) :
            /\ SurfaceLive(world, queue[i].target_surface)
            /\ \A j \in 1..Len(queue[i].ref_surfaces) :
                   SurfaceLive(world, queue[i].ref_surfaces[j])

\* C2: no surface handle has been destroyed more than once.
C2_DestroyedAtMostOnce == \A h \in SurfIds : world.destroys[h] <= 1

\* C3: when execute_deferred has returned, every command that was in the
\* queue has had its allocations released exactly once.
C3_ReleasedExactlyOnce ==
    ExecuteReturned => \A id \in hist.batch : hist.released[id] = 1

\* C4: when execute_deferred has returned, with any status, the queue is
\* empty; no command is handed to the backend twice, and no command that a
\* submission found in the queue is in the queue again afterwards.
C4_QueueEmptyAfterExecute ==
    /\ ExecuteReturned => queue = <<>>
    /\ \A i, j \in 1..Len(hist.calls) : i # j => hist.calls[i] # hist.calls[j]
    /\ \A i \in 1..Len(queue) : queue[i].id \notin hist.batch

\* a submission of two queued commands has returned an error
C4_Witness ==
    /\ ExecuteReturned /\ ret.status # "VK_SUCCESS"
    /\ Cardinality(hist.batch) = 2 /\ queue = <<>>

\* C5: the render calls are made in the order of the decode_frame calls that
\* queued the commands (command ids count the decode_frame calls).
C5_RenderOrderIsCallOrder ==
    \A i, j \in 1..Len(hist.calls) : i < j => hist.calls[i] < hist.calls[j]

\* two commands of one submission have both been handed to the backend
C5_Witness ==
    /\ Len(hist.calls) = 2
    /\ hist.batch = {hist.calls[1], hist.calls[2]}
    /\ hist.calls[1] # hist.calls[2]

\* C6: when execute_deferred has returned and the render call of a command of
\* the batch failed, the status is an error and no command queued after the
\* failed one was handed to the backend.
C6_FailFast ==
    ExecuteReturned =>
        \A id \in hist.batch \cap RenderFailed :
            /\ ret.status # "VK_SUCCESS"
            /\ \A later \in hist.batch : later > id => later \notin Called

\* a render call failed while a later command of the batch was queued
C6_Witness ==
    /\ ExecuteReturned
    /\ \E id \in hist.batch \cap RenderFailed : \E later \in hist.batch : later > id

\* C7 as stated: when execute_deferred has returned, every command of the
\* batch was handed to the backend or dropped by the frame cap.
C7_ExecutesOrDropped ==
    ExecuteReturned => \A id \in hist.batch : id \in Called \/ id \in hist.skipped

\* C7 amended: when execute_deferred has returned, every command of the batch
\* was handed to the backend, or dropped by the frame cap, or abandoned
\* because the render call of an earlier command of the batch failed (and
\* then the status is an error); a dropped command is never handed over.
C7_ExecutesDroppedOrAbandoned ==
    /\ ExecuteReturned =>
         \A id \in hist.batch :
            \/ id \in Called
            \/ id \in hist.skipped
            \/ /\ ret.status # "VK_SUCCESS"
               /\ \E f \in hist.batch \cap RenderFailed : f < id
    /\ hist.skipped \cap Called = {}

\* a submission has returned with a command that was neither handed to the
\* backend nor dropped by the cap
C7_Witness ==
    /\ ExecuteReturned
    /\ \E id \in hist.batch : id \notin Called /\ id \notin hist.skipped

\* C8: when execute_deferred has returned success, every command of the batch
\* whose render call succeeded was synchronised on and its picture reached
\* its destination image.
C8_SuccessMeansPictureArrived ==
    (ExecuteReturned /\ ret.status = "VK_SUCCESS") =>
        \A id \in hist.batch \cap hist.ok : id \in hist.got

\* C9: once the session is destroyed the command buffer holds no command
\* that references it.
C9_NoCommandOutlivesSession ==
    session.state = "destroyed" => queue = <<>>

\* thread t has returned from a call of anv_vdpau_get_device
Returned(t) == tpc[t] = "idle" /\ xdpy.calls[t] > 0

\* the threads inside the locked part of anv_vdpau_get_device
InLockedPart == {t \in Threads : tpc[t] \in {"check", "init", "create", "publish"}}

\* C10 as stated: one display connection is opened at most, and all callers
\* that have returned returned the same handle.
C10_OneInitSameHandle ==
    /\ xdpy.opened <= 1
    /\ \A t, u \in Threads : Returned(t) /\ Returned(u) => tret[t] = tret[u]

\* C10 amended: the initializations are serialised by device->mutex; at most
\* one of them succeeds and stores a handle; a failed one closes its display
\* connection, so at most one connection is open and none stays open without
\* a stored handle; a caller that returned a valid handle returned the stored
\* one.
C10_SerializedSingleSuccess ==
    /\ Cardinality(InLockedPart) <= 1
    /\ \A t \in InLockedPart : mutex = t
    /\ xdpy.stored <= 1
    /\ (vdp_device # VDP_INVALID_HANDLE) <=> (xdpy.stored = 1)
    /\ xdpy.open <= 1
    /\ InLockedPart = {} => xdpy.open = xdpy.stored
    /\ \A t \in Threads :
          (Returned(t) /\ tret[t] # VDP_INVALID_HANDLE) => tret[t] = vdp_device

\* a caller waits for the mutex while another one, after a failed
\* initialization, has stored the handle
C10_Witness ==
    /\ xdpy.opened = 2
    /\ \E t, u \in Threads : tpc[t] = "publish" /\ tpc[u] = "lock"

(***************************************************************************)
(* anv_vaapi_get_display called by several threads on one cold device.     *)
(* The function takes no lock.  A thread is at "idle" (outside the         *)
(* function), "open" (saw no display, before open()), "init" (DRM node     *)
(* open, before vaGetDisplayDRM and vaInitialize) or "store" (display      *)
(* initialized, before the stores to the device).  tret[t] holds the local *)
(* va_display of thread t from "store" on; a display takes the number of   *)
(* the open() that produced its DRM fd.                                    *)
(***************************************************************************)
\* return of value v
VaReturn(t, v) ==
    /\ tpc' = [tpc EXCEPT ![t] = "idle"]
    /\ tret' = [tret EXCEPT ![t] = v]

\* entry and the check of device->va_display (lines 190-191)
anv_vaapi_get_display_enter(t) ==
    /\ tpc[t] = "idle" /\ xdpy.calls[t] < MaxCalls
    /\ xdpy' = [xdpy EXCEPT !.calls[t] = @ + 1]
    /\ IF va_display # 0
       THEN VaReturn(t, va_display)
       ELSE /\ tpc' = [tpc EXCEPT ![t] = "open"]
            /\ UNCHANGED tret
    /\ UNCHANGED <<vdp_device, mutex, va_display, vdpau_mutex, rpc, raced, bvars, pq>>

\* open() of the DRM node (lines 221-228)
anv_vaapi_get_display_open(t) ==
    /\ tpc[t] = "open"
    /\ \E ok \in BOOLEAN :
         IF ok
         THEN /\ xdpy' = [xdpy EXCEPT !.opened = @ + 1, !.open = @ + 1]
              /\ tpc' = [tpc EXCEPT ![t] = "init"]
              /\ tret' = [tret EXCEPT ![t] = xdpy.opened + 1]
         ELSE /\ VaReturn(t, 0)
              /\ UNCHANGED xdpy
    /\ UNCHANGED <<vdp_device, mutex, va_display, vdpau_mutex, rpc, raced, bvars, pq>>

\* vaGetDisplayDRM and vaInitialize (lines 231-249); a failure closes the fd
anv_vaapi_get_display_init(t) ==
    /\ tpc[t] = "init"
    /\ \E ok \in BOOLEAN :
         IF ok
         THEN /\ tpc' = [tpc EXCEPT ![t] = "store"]
              /\ UNCHANGED <<tret, xdpy>>
         ELSE /\ xdpy' = [xdpy EXCEPT !.open = @ - 1]
              /\ VaReturn(t, 0)
    /\ UNCHANGED <<vdp_device, mutex, va_display, vdpau_mutex, rpc, raced, bvars, pq>>

\* the stores to device->va_display and device->va_drm_fd, and the return
\* (lines 258-260)
anv_vaapi_get_display_store(t) ==
    /\ tpc[t] = "store"
    /\ va_display' = tret[t]
    /\ xdpy' = [xdpy EXCEPT !.stored = @ + 1]
    /\ VaReturn(t, tret[t])
    /\ UNCHANGED <<vdp_device, mutex, vdpau_mutex, rpc, raced, bvars, pq>>

InitGetDisplay ==
    /\ backend = "vaapi"
    /\ max_frames = 0
    /\ BridgeIdle
    /\ GdIdle
    /\ DvIdle

NextGetDisplay ==
    \E t \in Threads :
        \/ anv_vaapi_get_display_enter(t)
        \/ anv_vaapi_get_display_open(t)
        \/ anv_vaapi_get_display_init(t)
        \/ anv_vaapi_get_display_store(t)

SpecGetDisplay == InitGetDisplay /\ [][NextGetDisplay]_vars

\* C11: at most one DRM node is open for VA-API at any time, and all callers
\* that returned a display returned the same one.
C11_OneDisplay ==
    /\ xdpy.open <= 1
    /\ \A t, u \in Threads :
          (Returned(t) /\ Returned(u) /\ tret[t] # 0 /\ tret[u] # 0) => tret[t] = tret[u]

(***************************************************************************)
(* One VDPAU session used by several threads: a thread records            *)
(* (anv_vdpau_decode_frame), submits (anv_vdpau_execute_deferred_decodes) *)
(* or destroys the session.  The submit is split where it takes            *)
(* device->vdpau_mutex: a thread at "render" holds the mutex and is inside *)
(* phase 1, the render calls.  queue is the command buffer being           *)
(* submitted; a command recorded while a submission is in flight goes to   *)
(* another command buffer, which is never submitted here.                  *)
(***************************************************************************)
\* thread t changes the set of decoders while another thread is in phase 1
RacesWithRender(t, w1) ==
    /\ w1.nextDec # world.nextDec \/ w1.decDestroyed # world.decDestroyed
    /\ \E u \in Threads \ {t} : rpc[u] = "render"

\* anv_vdpau_decode_frame on thread t: no lock is taken
anv_vdpau_decode_frame_by(t) ==
    /\ pc = "running" /\ session.state = "alive" /\ rpc[t] = "idle"
    /\ ncmds < MaxDecodes
    /\ \E dst \in Images, fail \in {"none", "decoder_create", "no_slices"} :
         LET r == VdpauDecode(Bridge, ncmds + 1, dst, <<>>, fail)
         IN  /\ session' = r.S.s
             /\ world' = r.S.w
             /\ queue' = IF r.cmd.id = 0 \/ (\E u \in Threads : rpc[u] # "idle")
                         THEN queue ELSE QueueAppend(queue, r.cmd)
             /\ ret' = [op |-> "decode", status |-> r.status]
             /\ raced' = (raced \/ RacesWithRender(t, r.S.w))
    /\ ncmds' = ncmds + 1
    /\ UNCHANGED <<backend, max_frames, pc, hist, va_display, vdpau_mutex, rpc, gvars, pq>>

\* anv_vdpau_execute_deferred_decodes up to pthread_mutex_lock (lines 1703-1748)
anv_vdpau_execute_deferred_decodes_lock(t) ==
    /\ pc = "running" /\ rpc[t] = "idle"
    /\ queue # <<>>
    /\ vdpau_mutex = 0
    /\ vdpau_mutex' = t
    /\ rpc' = [rpc EXCEPT ![t] = "render"]
    /\ UNCHANGED <<va_display, raced, bvars, gvars, pq>>

\* phase 1, pthread_mutex_unlock and the rest of the function (lines 1760-1880)
anv_vdpau_execute_deferred_decodes_render(t) ==
    /\ pc = "running" /\ rpc[t] = "render"
    /\ \/ /\ session.state = "destroyed"
          /\ pc' = "crashed"
          /\ UNCHANGED <<session, world, queue, hist, ret, vdpau_mutex, rpc>>
       \/ \E ev \in ExecEvents(Len(queue), {"cpu"}) :
            LET r == VdpauExecute(Bridge, queue, max_frames, FailAt(ev),
                                  [i \in 1..Len(queue) |->
                                     IF i = ev.at /\ ev.kind # "render_fail"
                                     THEN ev.kind ELSE "dmabuf"],
                                  hist)
            IN  /\ session' = r.S.s
                /\ world' = r.S.w
                /\ queue' = r.queue
                /\ hist' = r.hist
                /\ ret' = [op |-> "execute", status |-> r.result]
                /\ pc' = pc
                /\ vdpau_mutex' = 0
                /\ rpc' = [rpc EXCEPT ![t] = "idle"]
    /\ UNCHANGED <<backend, max_frames, ncmds, va_display, raced, gvars, pq>>

\* anv_vdpau_session_destroy on thread t: no lock is taken
anv_vdpau_session_destroy_by(t) ==
    /\ pc = "running" /\ session.state = "alive" /\ rpc[t] = "idle"
    /\ LET w1 == DestroySurfaces(world, SurfacesOf(session.surface_map))
           w2 == IF session.vdp_decoder # 0
                 THEN DestroyDecoder(w1, session.vdp_decoder) ELSE w1
       IN  /\ world' = w2
           /\ raced' = (raced \/ RacesWithRender(t, w2))
    /\ session' = [session EXCEPT !.state = "destroyed"]
    /\ ret' = [op |-> "destroy", status |-> "VK_SUCCESS"]
    /\ UNCHANGED <<backend, max_frames, queue, ncmds, pc, hist,
                   va_display, vdpau_mutex, rpc, gvars, pq>>

InitDecoderLock ==
    /\ backend = "vdpau"
    /\ max_frames = 0
    /\ BridgeIdle
    /\ GdIdle
    /\ DvIdle

NextDecoderLock ==
    \/ anv_vdpau_session_create
    \/ \E t \in Threads :
          \/ anv_vdpau_decode_frame_by(t)
          \/ anv_vdpau_execute_deferred_decodes_lock(t)
          \/ anv_vdpau_execute_deferred_decodes_render(t)
          \/ anv_vdpau_session_destroy_by(t)

SpecDecoderLock == InitDecoderLock /\ [][NextDecoderLock]_vars

\* C12: no thread creates or destroys the session's decoder while another
\* thread holds device->vdpau_mutex for its render calls.
C12_DecoderChangesExcludeRender == ~raced

(***************************************************************************)
(* The surface cache of one session, driven call by call: inserts (each    *)
(* with a surface just created, as in decode_frame), lookups, and on the   *)
(* VDPAU build the aggressive eviction.  ret keeps the call, its image and *)
(* the bridge state it started from; hist keeps the image of the last      *)
(* lookup hit and the logical time of that lookup while only inserts have  *)
(* followed it (observations).                                             *)
(***************************************************************************)
NoLookup == [looked |-> 0, at |-> 0]

CacheCall(op, image) ==
    [op |-> op, status |-> "VK_SUCCESS", image |-> image, before |-> Bridge]

anv_vdpau_add_surface_mapping_call ==
    /\ backend = "vdpau" /\ session.state = "alive" /\ ncmds < MaxCacheOps
    /\ \E image \in Images :
         LET S1 == anv_vdpau_add_surface_mapping(CreateSurface(Bridge), image,
                                                 NewSurface(Bridge))
         IN  /\ session' = S1.s
             /\ world' = S1.w
             /\ ret' = CacheCall("add", image)
    /\ ncmds' = ncmds + 1
    /\ UNCHANGED <<backend, max_frames, queue, pc, hist, gvars, dvars>>

anv_vdpau_lookup_surface_call ==
    /\ backend = "vdpau" /\ session.state = "alive" /\ ncmds < MaxCacheOps
    /\ \E image \in Images :
         /\ session' = anv_vdpau_lookup_surface(session, image)
         /\ ret' = CacheCall("lookup", image)
         /\ hist' = IF LookupSurface(session, image) # VDP_INVALID_HANDLE
                    THEN [looked |-> image, at |-> session.frame_counter]
                    ELSE NoLookup
    /\ ncmds' = ncmds + 1
    /\ UNCHANGED <<backend, max_frames, world, queue, pc, gvars, dvars>>

\* the call of anv_vdpau_copy_surface_to_image_dmabuf (lines 854-857)
anv_vdpau_evict_old_surfaces_call ==
    /\ backend = "vdpau" /\ session.state = "alive" /\ ncmds < MaxCacheOps
    /\ LET keep_count == IF session.surface_map_capacity > 2
                         THEN session.surface_map_capacity - 2 ELSE 3
           S1 == anv_vdpau_evict_old_surfaces(Bridge, keep_count)
       IN  /\ session' = S1.s
           /\ world' = S1.w
    /\ ret' = CacheCall("evict", 0)
    /\ hist' = NoLookup
    /\ ncmds' = ncmds + 1
    /\ UNCHANGED <<backend, max_frames, queue, pc, gvars, dvars>>

anv_vaapi_add_surface_mapping_call ==
    /\ backend = "vaapi" /\ session.state = "alive" /\ ncmds < MaxCacheOps
    /\ \E image \in Images :
         LET S1 == anv_vaapi_add_surface_mapping(CreateSurface(Bridge), image,
                                                 NewSurface(Bridge))
         IN  /\ session' = S1.s
             /\ world' = S1.w
             /\ ret' = CacheCall("add", image)
    /\ ncmds' = ncmds + 1
    /\ UNCHANGED <<backend, max_frames, queue, pc, hist, gvars, dvars>>

anv_vaapi_lookup_surface_call ==
    /\ backend = "vaapi" /\ session.state = "alive" /\ ncmds < MaxCacheOps
    /\ \E image \in Images :
         /\ ret' = CacheCall("lookup", image)
         /\ hist' = IF anv_vaapi_lookup_surface(session, image) # VDP_INVALID_HANDLE
                    THEN [looked |-> image, at |-> session.frame_counter]
                    ELSE NoLookup
    /\ ncmds' = ncmds + 1
    /\ UNCHANGED <<backend, max_frames, session, world, queue, pc, gvars, dvars>>

\* a session just created, with the capacity session_create gives it
InitCache ==
    /\ backend \in {"vdpau", "vaapi"}
    /\ max_frames = 0
    /\ \E maxDpbSlots \in 1..MaxDpbSlots :
         session = [NoSession EXCEPT
                      !.state = "alive",
                      !.decoder_created = (backend = "vaapi"),
                      !.vdp_decoder = IF backend = "vaapi" THEN 1 ELSE 0,
                      !.width = IF backend = "vaapi" THEN MaxCodedExtent ELSE 0,
                      !.surface_map_capacity =
                          IF backend = "vdpau"
                          THEN Min2(maxDpbSlots + 1, HASVK_MAX_SURFACE_CACHE_SIZE)
                          ELSE maxDpbSlots + 1]
    /\ world = [nextSurf |-> 1, destroys |-> [h \in 1..MaxCacheOps |-> 0],
                nextDec |-> IF backend = "vaapi" THEN 2 ELSE 1,
                decDestroyed |-> {}, va_display |-> backend = "vaapi"]
    /\ queue = <<>>
    /\ ncmds = 0
    /\ pc = "running"
    /\ hist = NoLookup
    /\ ret = [op |-> "create", status |-> "VK_SUCCESS"]
    /\ GdIdle
    /\ DvIdle

NextCache ==
    \/ anv_vdpau_add_surface_mapping_call
    \/ anv_vdpau_lookup_surface_call
    \/ anv_vdpau_evict_old_surfaces_call
    \/ anv_vaapi_add_surface_mapping_call
    \/ anv_vaapi_lookup_surface_call

SpecCache == InitCache /\ [][NextCache]_vars

\* C13: the number of entries of the surface cache never exceeds its capacity.
C13_SizeWithinCapacity ==
    Len(session.surface_map) <= session.surface_map_capacity

\* an insert of an image that had no entry was made on a full cache
C13_Witness ==
    /\ ret.op = "add"
    /\ Len(ret.before.s.surface_map) = session.surface_map_capacity
    /\ FindImage(ret.before.s.surface_map, ret.image, 1) = 0
    /\ Len(session.surface_map) = session.surface_map_capacity

\* the images that have an entry
ImagesOf(map) == {map[i].image : i \in 1..Len(map)}

\* the entry with the smallest last-used timestamp, the earliest such entry
OldestIndex(map) ==
    CHOOSE i \in 1..Len(map) :
        /\ \A j \in 1..Len(map) : map[j].last_used_frame >= map[i].last_used_frame
        /\ \A j \in 1..(i - 1) : map[j].last_used_frame > map[i].last_used_frame

\* the last call inserted an image that had no entry into a full cache
InsertedAtCapacity ==
    /\ ret.op = "add"
    /\ Len(ret.before.s.surface_map) = ret.before.s.surface_map_capacity
    /\ ret.image \notin ImagesOf(ret.before.s.surface_map)

\* C14: an insert of a new image into a full cache evicts exactly one entry,
\* the earliest entry with the smallest last-used timestamp, releases the
\* surface of that entry and no other, and stores the new image.
C14_InsertAtCapacityEvictsLru ==
    InsertedAtCapacity =>
        LET old == ret.before.s.surface_map
            v   == OldestIndex(old)
        IN  /\ ImagesOf(session.surface_map) =
                   (ImagesOf(old) \ {old[v].image}) \cup {ret.image}
            /\ Len(session.surface_map) = Len(old)
            /\ LookupSurface(session, ret.image) = ret.before.w.nextSurf
            /\ \A h \in DOMAIN world.destroys :
                   world.destroys[h] = ret.before.w.destroys[h]
                                       + (IF h = old[v].surface THEN 1 ELSE 0)

\* only inserts have followed the last lookup hit, and the last of them
\* evicted the entry that lookup had found
LookedUpEvicted ==
    /\ ret.op = "add"
    /\ hist.looked # 0
    /\ hist.looked \in ImagesOf(ret.before.s.surface_map)
    /\ hist.looked \notin ImagesOf(session.surface_map)

\* C15: a lookup hit counts as a use at the logical time of the lookup: when
\* the inserts that follow it evict the entry it found, no entry last used
\* strictly before that lookup was still in the cache.
C15_LookupRefreshesRecency ==
    LookedUpEvicted =>
        \A i \in 1..Len(ret.before.s.surface_map) :
            ret.before.s.surface_map[i].last_used_frame >= hist.at

\* an insert that followed a lookup hit evicted an entry last used strictly
\* before the lookup, although the entry the lookup found had been inserted
\* before it and is still in the cache
C15_Witness ==
    /\ InsertedAtCapacity
    /\ hist.looked \in ImagesOf(session.surface_map)
    /\ LET old == ret.before.s.surface_map
           v   == OldestIndex(old)
       IN  /\ old[v].image \notin ImagesOf(session.surface_map)
           /\ old[v].last_used_frame < hist.at
           /\ FindImage(old, hist.looked, 1) < v

\* C16: the surface cache holds at most one entry per image.
C16_OneEntryPerImage ==
    \A i, j \in 1..Len(session.surface_map) :
        session.surface_map[i].image = session.surface_map[j].image => i = j

\* anv_vdpau_evict_old_surfaces removed entries and compacted the array
C16_Witness ==
    /\ ret.op = "evict"
    /\ Len(session.surface_map) < Len(ret.before.s.surface_map)
    /\ Len(session.surface_map) > 1

(***************************************************************************)
(* A VDPAU session that is fed distinct destination images, one decode     *)
(* each, without references.  hist is the sequence of the images fed so    *)
(* far (an observation); they are fed in increasing order of identity.     *)
(***************************************************************************)
FeedImages == 1..NumFeedImages

Fed == {hist[i] : i \in 1..Len(hist)}

anv_vdpau_decode_frame_feed ==
    /\ backend = "vdpau" /\ session.state = "alive"
    /\ ncmds < MaxFeeds
    /\ \E dst \in FeedImages :
         /\ \A i \in Fed : i < dst
         /\ LET r == VdpauDecode(Bridge, ncmds + 1, dst, <<>>, "none")
            IN  /\ session' = r.S.s
                /\ world' = r.S.w
                /\ queue' = IF r.cmd.id = 0 THEN queue ELSE QueueAppend(queue, r.cmd)
                /\ ret' = [op |-> "decode", status |-> r.status]
         /\ hist' = Append(hist, dst)
    /\ ncmds' = ncmds + 1
    /\ UNCHANGED <<backend, max_frames, pc, gvars, dvars>>

\* the capacity anv_vdpau_session_create gives a session (lines 468-471)
CapacityFor(maxDpbSlots) == Min2(maxDpbSlots + 1, HASVK_MAX_SURFACE_CACHE_SIZE)

InitFeed ==
    /\ backend = "vdpau"
    /\ max_frames = 0
    /\ \E maxDpbSlots \in 1..FeedDpbSlots :
         session = [NoSession EXCEPT
                      !.state = "alive",
                      !.surface_map_capacity = CapacityFor(maxDpbSlots)]
    /\ world = [nextSurf |-> 1, destroys |-> [h \in 1..MaxFeeds |-> 0],
                nextDec |-> 1, decDestroyed |-> {}, va_display |-> FALSE]
    /\ queue = <<>>
    /\ ncmds = 0
    /\ pc = "running"
    /\ hist = <<>>
    /\ ret = [op |-> "create", status |-> "VK_SUCCESS"]
    /\ GdIdle
    /\ DvIdle

NextFeed == anv_vdpau_decode_frame_feed

SpecFeed == InitFeed /\ [][NextFeed]_vars

\* every image fed so far has the same extent, so the decoder was built once
SameExtentFed == \A i, j \in Fed : ImageExtent(i) = ImageExtent(j)

\* surfaces destroyed so far
Destroyed == {h \in DOMAIN world.destroys : world.destroys[h] > 0}

Max0(n) == IF n > 0 THEN n ELSE 0

\* C17 (as stated): a session created with maxDpbSlots = 4 and fed 6 distinct
\* destination images of one extent has evicted exactly 2 cache entries.
C17_SixImagesEvictTwo ==
    (/\ session.surface_map_capacity = CapacityFor(4)
     /\ Len(hist) = 6
     /\ SameExtentFed)
        => Cardinality(Destroyed) = 2

\* C17 (amended): a session created with maxDpbSlots = n has a cache of n + 1
\* entries; fed k distinct destination images of one extent it has evicted
\* the first max(0, k - (n + 1)) of them, in creation order, and destroyed
\* each evicted surface exactly once; so maxDpbSlots = 4 and 6 images evict
\* exactly one entry, the first.
C17_FeedEvictsOldestBeyondCapacity ==
    SameExtentFed =>
        LET k == Len(hist)
            e == Max0(k - session.surface_map_capacity)
        IN  /\ ImagesOf(session.surface_map) = {hist[i] : i \in (e + 1)..k}
            /\ \A h \in DOMAIN world.destroys :
                   world.destroys[h] = IF h <= e THEN 1 ELSE 0
            /\ \A i \in 1..k :
                   i > e => LookupSurface(session, hist[i]) = i
            /\ (session.surface_map_capacity = CapacityFor(4) /\ k = 6) => e = 1

\* six images of one extent were fed to a session created with maxDpbSlots = 4
C17_Witness ==
    /\ session.surface_map_capacity = CapacityFor(4)
    /\ Len(hist) = 6
    /\ SameExtentFed
    /\ Cardinality(Destroyed) = 1

(***************************************************************************)
(* decode_frame calls without references on one session, each recorded     *)
(* with its inputs and the state it started from: ret keeps the            *)
(* destination image, the slice count, whether the SPS and the PPS of the   *)
(* picture are among the session parameters, the bridge state and the queue *)
(* length before the call, and whether a rebuild of the decoder had failed *)
(* before the call; hist is TRUE once a rebuild of the decoder has failed  *)
(* (observations).                                                         *)
(***************************************************************************)
RecordFailPoints ==
    {"none", "decoder_create", "surface_create", "sps_missing", "no_slices"}

DecodeCall(dst, fail, status) ==
    [op |-> "decode", status |-> status, dst |-> dst,
     sliceCount |-> IF fail = "no_slices" THEN 0 ELSE 1,
     params_found |-> fail # "sps_missing",
     before |-> Bridge, queued |-> Len(queue), rebuild_failed |-> hist]

\* the call finds a decoder built for another extent and fails to build the new one
RebuildFails(dst, fail) ==
    /\ session.decoder_created
    /\ session.width # ImageExtent(dst)
    /\ fail = "decoder_create"

anv_vdpau_decode_frame_record ==
    /\ backend = "vdpau" /\ session.state = "alive"
    /\ ncmds < MaxRecords
    /\ \E dst \in Images, fail \in RecordFailPoints :
         LET r == VdpauDecode(Bridge, ncmds + 1, dst, <<>>, fail)
         IN  /\ session' = r.S.s
             /\ world' = r.S.w
             /\ queue' = IF r.cmd.id = 0 THEN queue ELSE QueueAppend(queue, r.cmd)
             /\ ret' = DecodeCall(dst, fail, r.status)
             /\ hist' = (hist \/ RebuildFails(dst, fail))
    /\ ncmds' = ncmds + 1
    /\ UNCHANGED <<backend, max_frames, pc, gvars, dvars>>

anv_vaapi_decode_frame_record ==
    /\ backend = "vaapi" /\ session.state = "alive"
    /\ ncmds < MaxRecords
    /\ \E dst \in Images, fail \in RecordFailPoints \ {"decoder_create"} :
         LET r == VaapiDecode(Bridge, ncmds + 1, dst, <<>>, fail)
         IN  /\ session' = r.S.s
             /\ world' = r.S.w
             /\ queue' = IF r.cmd.id = 0 THEN queue ELSE QueueAppend(queue, r.cmd)
             /\ ret' = DecodeCall(dst, fail, r.status)
    /\ ncmds' = ncmds + 1
    /\ UNCHANGED <<backend, max_frames, pc, hist, gvars, dvars>>

\* a session just created: on the VA-API build the context exists already,
\* built for maxCodedExtent
InitRecord ==
    /\ backend \in {"vdpau", "vaapi"}
    /\ max_frames = 0
    /\ \E maxDpbSlots \in DpbSlots :
         session = [NoSession EXCEPT
                      !.state = "alive",
                      !.decoder_created = (backend = "vaapi"),
                      !.vdp_decoder = IF backend = "vaapi" THEN 1 ELSE 0,
                      !.width = IF backend = "vaapi" THEN MaxCodedExtent ELSE 0,
                      !.surface_map_capacity =
                          IF backend = "vdpau" THEN CapacityFor(maxDpbSlots)
                          ELSE maxDpbSlots + 1]
    /\ world = [nextSurf |-> 1,
                destroys |-> [h \in 1..MaxRecords |-> 0],
                nextDec |-> IF backend = "vaapi" THEN 2 ELSE 1,
                decDestroyed |-> {}, va_display |-> backend = "vaapi"]
    /\ queue = <<>>
    /\ ncmds = 0
    /\ pc = "running"
    /\ hist = FALSE
    /\ ret = [op |-> "create", status |-> "VK_SUCCESS"]
    /\ GdIdle
    /\ DvIdle

NextRecord ==
    \/ anv_vdpau_decode_frame_record
    \/ anv_vaapi_decode_frame_record

SpecRecord == InitRecord /\ [][NextRecord]_vars

\* the last call was a decode_frame whose destination image has another
\* extent than the decoder built before the call
GeometryChanged ==
    /\ ret.op = "decode"
    /\ ret.before.s.decoder_created
    /\ ret.before.s.width # ImageExtent(ret.dst)

\* C18: a decode whose extent differs from that of the built decoder destroys
\* that decoder and every surface the cache held, and drops those entries.
C18_GeometryChangeRebuilds ==
    GeometryChanged =>
        LET old == ret.before.s
        IN  /\ ~DecoderLive(world, old.vdp_decoder)
            /\ session.vdp_decoder # old.vdp_decoder
            /\ \A i \in 1..Len(old.surface_map) :
                  /\ ~SurfaceLive(world, old.surface_map[i].surface)
                  /\ FindSurface(session.surface_map, old.surface_map[i].surface, 1) = 0

\* C19: once a rebuild of the decoder has failed, every later decode_frame
\* returns VK_ERROR_INITIALIZATION_FAILED and appends no command.
C19_FailedRebuildIsFatal ==
    (ret.op = "decode" /\ ret.rebuild_failed) =>
        /\ ret.status = "VK_ERROR_INITIALIZATION_FAILED"
        /\ Len(queue) = ret.queued

\* C20: a decode_frame with sliceCount = 0 returns
\* VK_ERROR_FORMAT_NOT_SUPPORTED, appends no command and leaves the backend
\* as it was: no decoder or surface was created or destroyed.
C20_NoSlicesNoBackendCall ==
    (ret.op = "decode" /\ ret.sliceCount = 0) =>
        /\ ret.status = "VK_ERROR_FORMAT_NOT_SUPPORTED"
        /\ Len(queue) = ret.queued
        /\ world = ret.before.w

\* C21: a decode_frame whose SPS or PPS is not among the session parameters
\* returns an error status and appends no command.
C21_MissingParameterSetFails ==
    (ret.op = "decode" /\ ~ret.params_found) =>
        /\ ret.status # "VK_SUCCESS"
        /\ Len(queue) = ret.queued

(***************************************************************************)
(* decode_frame calls with references and with every failure of the        *)
(* environment, each recorded with its inputs (destination image,          *)
(* reference images, the step that fails), the state it started from and  *)
(* what it has acquired and not released when it returns (held).          *)
(***************************************************************************)
\* What a call of anv_vdpau_decode_frame that fails at step fail has acquired
\* by then besides surfaces: the reference-handle array (allocated when there
\* are reference slots, lines 1568-1578) and the mapping of the bitstream
\* buffer (line 1622)
VdpauAcquired(refs, fail) ==
    (IF Len(refs) > 0 /\ fail \in {"ref_surface_create", "src_buffer", "mmap",
                                   "no_slices", "bitstream_alloc"}
     THEN {"ref_surfaces"} ELSE {})
    \cup (IF fail \in {"no_slices", "bitstream_alloc"} THEN {"bitstream_map"} ELSE {})

\* what its failure return releases (lines 1596-1600, 1616-1646)
VdpauReleased(refs, fail) ==
    CASE fail \in {"ref_surface_create", "src_buffer", "mmap"} -> {"ref_surfaces"}
      [] fail \in {"no_slices", "bitstream_alloc"} -> {"ref_surfaces", "bitstream_map"}
      [] OTHER -> {}

\* the same for anv_vaapi_decode_frame: the reference-handle array (lines
\* 651-663), the picture parameter buffer (line 756), the mapping of the
\* bitstream buffer (line 782), the two slice buffer arrays (lines 806-813)
\* and the slice buffers created so far (lines 846-874)
VaapiAcquired(refs, fail) ==
    (IF Len(refs) > 0 /\ fail \in {"ref_surface_create", "sps_missing", "pic_param_buf",
                                   "src_buffer", "mmap", "no_slices", "slice_alloc",
                                   "slice_buf"}
     THEN {"ref_surfaces"} ELSE {})
    \cup (IF fail \in {"src_buffer", "mmap", "no_slices", "slice_alloc", "slice_buf"}
          THEN {"pic_param_buf"} ELSE {})
    \cup (IF fail \in {"no_slices", "slice_alloc", "slice_buf"}
          THEN {"bitstream_map"} ELSE {})
    \cup (IF fail \in {"slice_alloc", "slice_buf"} THEN {"slice_arrays"} ELSE {})
    \cup (IF fail = "slice_buf" THEN {"slice_bufs"} ELSE {})

\* what its failure return releases (lines 702-710, 746-802, 814-878)
VaapiReleased(refs, fail) ==
    CASE fail = "ref_surface_create" -> {"ref_surfaces"}
      [] fail \in {"src_buffer", "mmap"} -> {"pic_param_buf"}
      [] fail = "no_slices" -> {"bitstream_map", "pic_param_buf"}
      [] fail = "slice_alloc" -> {"bitstream_map", "pic_param_buf", "slice_arrays"}
      [] fail = "slice_buf" ->
            {"bitstream_map", "pic_param_buf", "slice_arrays", "slice_bufs"}
      [] OTHER -> {}

CallRecord(dst, refs, fail, status, held) ==
    [op |-> "decode", status |-> status, dst |-> dst, refs |-> refs, fail |-> fail,
     before |-> Bridge, queued |-> Len(queue), held |-> held]

anv_vdpau_decode_frame_call ==
    /\ backend = "vdpau" /\ session.state = "alive"
    /\ ncmds < MaxDecodes
    /\ \E dst \in Images, refs \in RefLists, fail \in VdpauFailPoints :
         LET r == VdpauDecode(Bridge, ncmds + 1, dst, refs, fail)
         IN  /\ session' = r.S.s
             /\ world' = r.S.w
             /\ queue' = IF r.cmd.id = 0 THEN queue ELSE QueueAppend(queue, r.cmd)
             /\ ret' = CallRecord(dst, refs, fail, r.status,
                                  VdpauAcquired(refs, fail) \ VdpauReleased(refs, fail))
    /\ ncmds' = ncmds + 1
    /\ UNCHANGED <<backend, max_frames, pc, hist, gvars, dvars>>

anv_vaapi_decode_frame_call ==
    /\ backend = "vaapi" /\ session.state = "alive"
    /\ ncmds < MaxDecodes
    /\ \E dst \in Images, refs \in RefLists, fail \in VaapiFailPoints :
         LET r == VaapiDecode(Bridge, ncmds + 1, dst, refs, fail)
         IN  /\ session' = r.S.s
             /\ world' = r.S.w
             /\ queue' = IF r.cmd.id = 0 THEN queue ELSE QueueAppend(queue, r.cmd)
             /\ ret' = CallRecord(dst, refs, fail, r.status,
                                  VaapiAcquired(refs, fail) \ VaapiReleased(refs, fail))
    /\ ncmds' = ncmds + 1
    /\ UNCHANGED <<backend, max_frames, pc, hist, gvars, dvars>>

\* a session just created, as in InitRecord
InitCall ==
    /\ backend \in {"vdpau", "vaapi"}
    /\ max_frames = 0
    /\ \E maxDpbSlots \in DpbSlots :
         session = [NoSession EXCEPT
                      !.state = "alive",
                      !.decoder_created = (backend = "vaapi"),
                      !.vdp_decoder = IF backend = "vaapi" THEN 1 ELSE 0,
                      !.width = IF backend = "vaapi" THEN MaxCodedExtent ELSE 0,
                      !.surface_map_capacity =
                          IF backend = "vdpau" THEN CapacityFor(maxDpbSlots)
                          ELSE maxDpbSlots + 1]
    /\ world = [nextSurf |-> 1, destroys |-> [h \in SurfIds |-> 0],
                nextDec |-> IF backend = "vaapi" THEN 2 ELSE 1,
                decDestroyed |-> {}, va_display |-> backend = "vaapi"]
    /\ queue = <<>>
    /\ ncmds = 0
    /\ pc = "running"
    /\ hist = NoHist
    /\ ret = [op |-> "create", status |-> "VK_SUCCESS"]
    /\ GdIdle
    /\ DvIdle

NextCall ==
    \/ anv_vdpau_decode_frame_call
    \/ anv_vaapi_decode_frame_call

SpecCall == InitCall /\ [][NextCall]_vars

\* the last call was a decode_frame that failed to create or import the
\* surface of a reference image
RefSurfaceFailed ==
    /\ ret.op = "decode"
    /\ ret.fail = "ref_surface_create"
    /\ \E i \in 1..Len(ret.refs) :
          LookupSurface(ret.before.s, ret.refs[i]) = VDP_INVALID_HANDLE
    /\ \A i \in 1..Len(ret.refs) : ret.refs[i] # ret.dst

\* C22: a decode_frame that cannot obtain the surface of a reference still
\* returns VK_SUCCESS and appends its command.
C22_UnresolvedReferenceTolerated ==
    RefSurfaceFailed =>
        /\ ret.status = "VK_SUCCESS"
        /\ Len(queue) = ret.queued + 1

\* C23: a decode_frame that returns an error holds nothing it acquired
\* during the call.
C23_FailedCallHoldsNothing ==
    (ret.op = "decode" /\ ret.status # "VK_SUCCESS") => ret.held = {}

(***************************************************************************)
(* The copy of a decoded surface to its image, step by step, on a cache    *)
(* filled call by call, and the import of an image as a VA-API surface.    *)
(* ret keeps the call, the step of the DMA-buf path that fails, whether    *)
(* the export handed out a file descriptor, how often the call closed it,  *)
(* whether the CPU copy and the bulk eviction were called, and the bridge  *)
(* state the call started from.                                            *)
(***************************************************************************)
\* the steps of anv_vdpau_copy_surface_to_image_dmabuf that can fail, in the
\* order of the code; "none" is the copy through the imported buffer
DmabufSteps ==
    {"none", "no_entry_point", "export_fail", "export_bad_fd", "dim_mismatch",
     "format_mismatch", "import_fail", "import_oom", "no_dst_bo",
     "unknown_modifier", "map_fail", "linear_alloc", "tiling_mismatch"}

\* lines 792-822: the export handed a descriptor to the caller
ExportedFd(step) == step \notin {"no_entry_point", "export_fail", "export_bad_fd"}

\* a copy that closes the descriptor only after the import
FdCloses_after_import(step) ==
    IF step \notin {"no_entry_point", "export_fail", "export_bad_fd",
                    "dim_mismatch", "format_mismatch"}
    THEN 1 ELSE 0

\* lines 806-846: the close calls on the exported descriptor, one in each
\* mismatch return and one after anv_device_import_bo
FdCloses(step) ==
    (IF step \in {"dim_mismatch", "format_mismatch"} THEN 1 ELSE 0)
    + (IF ExportedFd(step) /\ step \notin {"dim_mismatch", "format_mismatch"}
       THEN 1 ELSE 0)

\* a bridge that evicts on every failed import
EvictionTriggered_any_import(step) == step \in {"import_fail", "import_oom"}

\* line 854: result == VK_ERROR_OUT_OF_DEVICE_MEMORY after a failed import
EvictionTriggered(step) == step = "import_oom"

\* anv_vdpau_copy_surface_to_image_dmabuf with the step that fails as input
DmabufCopyPath(S, surf, step, cpuFails) ==
    LET evict      == EvictionTriggered(step)
        keep_count == IF S.s.surface_map_capacity > 2
                      THEN S.s.surface_map_capacity - 2 ELSE 3
        S1         == IF evict THEN anv_vdpau_evict_old_surfaces(S, keep_count) ELSE S
    IN  IF step = "none"
        THEN [S |-> S, result |-> "VK_SUCCESS", cpu_copy |-> FALSE, evict |-> FALSE,
              keep_count |-> 0, fd_closes |-> FdCloses(step)]
        ELSE [S |-> S1,
              result |-> anv_vdpau_copy_surface_to_image(S1.w, surf, cpuFails),
              cpu_copy |-> TRUE, evict |-> evict,
              keep_count |-> IF evict THEN keep_count ELSE 0,
              fd_closes |-> FdCloses(step)]

\* the copy of a cached surface, as phase 2 of the execute calls it
anv_vdpau_copy_surface_to_image_dmabuf_call ==
    /\ backend = "vdpau" /\ session.state = "alive" /\ ncmds < MaxCacheOps
    /\ \E i \in 1..Len(session.surface_map), step \in DmabufSteps, cpuFails \in BOOLEAN :
         LET surf == session.surface_map[i].surface
             c    == DmabufCopyPath(Bridge, surf, step, cpuFails)
         IN  /\ session' = c.S.s
             /\ world' = c.S.w
             /\ ret' = [op |-> "copy", status |-> c.result, surf |-> surf,
                        step |-> step, cpuFails |-> cpuFails,
                        cpu_copy |-> c.cpu_copy, evict |-> c.evict,
                        keep_count |-> c.keep_count,
                        fd_exported |-> ExportedFd(step), fd_closes |-> c.fd_closes,
                        before |-> Bridge]
    /\ hist' = NoLookup
    /\ ncmds' = ncmds + 1
    /\ UNCHANGED <<backend, max_frames, queue, pc, gvars, dvars>>

\* the steps of anv_vaapi_import_surface_from_image that can fail
VaapiImportSteps == {"none", "no_display", "export_fail", "create_fail"}

\* anv_vaapi_import_surface_from_image: the descriptor of
\* anv_vaapi_export_video_surface_dmabuf is closed after vaCreateSurfaces
anv_vaapi_import_surface_from_image_call ==
    /\ backend = "vaapi" /\ session.state = "alive" /\ ncmds < MaxCacheOps
    /\ \E step \in VaapiImportSteps :
         LET exported == step \in {"none", "create_fail"}
         IN  /\ world' = IF step = "none" THEN CreateSurface(Bridge).w ELSE world
             /\ ret' = [op |-> "import",
                        status |-> CASE step = "none" -> "VK_SUCCESS"
                                     [] step = "no_display" ->
                                            "VK_ERROR_INITIALIZATION_FAILED"
                                     [] step = "export_fail" ->
                                            "VK_ERROR_TOO_MANY_OBJECTS"
                                     [] OTHER ->
                                            "VK_ERROR_VIDEO_PICTURE_LAYOUT_NOT_SUPPORTED_KHR",
                        step |-> step, fd_exported |-> exported,
                        fd_closes |-> IF exported THEN 1 ELSE 0,
                        before |-> Bridge]
    /\ hist' = NoLookup
    /\ ncmds' = ncmds + 1
    /\ UNCHANGED <<backend, max_frames, session, queue, pc, gvars, dvars>>

InitCopy == InitCache

NextCopy ==
    \/ anv_vdpau_add_surface_mapping_call
    \/ anv_vdpau_copy_surface_to_image_dmabuf_call
    \/ anv_vaapi_import_surface_from_image_call

SpecCopy == InitCopy /\ [][NextCopy]_vars

LostEntries ==
    {i \in 1..Len(ret.before.s.surface_map) :
        FindSurface(session.surface_map, ret.before.s.surface_map[i].surface, 1) = 0}

AmongMostRecent(map, i, n) ==
    Cardinality({j \in 1..Len(map) :
                    map[j].last_used_frame > map[i].last_used_frame}) < n

OomCopy == ret.op = "copy" /\ ret.step = "import_oom"

\* C26 as stated: after an export that gave a descriptor and an import that
\* reported out-of-device-memory the eviction is called with a keep_count
\* of at least 3, at least min(previous size, 3) entries remain and none of
\* the 3 most recently used entries is evicted.
C26_EvictionCalledWithThree ==
    OomCopy =>
        /\ ret.evict /\ ret.keep_count >= MinKeepCount
        /\ Len(session.surface_map) >= Min2(Len(ret.before.s.surface_map), MinKeepCount)
        /\ \A i \in LostEntries :
              ~AmongMostRecent(ret.before.s.surface_map, i, MinKeepCount)

\* C26, amended: the eviction is called with capacity - 2 (3 when the
\* capacity is at most 2), a count the eviction raises to 3 when it is
\* smaller; at least min(previous size, 3) entries remain and none of the 3
\* most recently used entries is evicted.
C26_EvictionKeepsThree ==
    OomCopy =>
        /\ ret.evict
        /\ ret.keep_count = IF session.surface_map_capacity > 2
                            THEN session.surface_map_capacity - 2 ELSE 3
        /\ Len(session.surface_map) >= Min2(Len(ret.before.s.surface_map), MinKeepCount)
        /\ \A i \in LostEntries :
              ~AmongMostRecent(ret.before.s.surface_map, i, MinKeepCount)

\* the eviction was called with a smaller count and removed an entry
C26_Witness ==
    /\ OomCopy /\ ret.keep_count < MinKeepCount
    /\ LostEntries # {}

\* C27: a call that obtained a file descriptor from a DMA-buf export has
\* closed it exactly once when it returns, whatever step failed, and a call
\* that obtained none has closed nothing.
C27_ExportedFdClosedOnce ==
    ret.op \in {"copy", "import"} =>
        ret.fd_closes = IF ret.fd_exported THEN 1 ELSE 0

\* the export gave a descriptor and the copy returned before the import
C27_Witness ==
    /\ ret.op = "copy" /\ ret.step = "dim_mismatch"
    /\ ret.fd_exported /\ ret.fd_closes = 1

\* the commands of the last batch the frame cap drops: with a cap of N > 0
\* and more than N commands, those followed by at least N later ones
CapDropped ==
    IF max_frames = 0 \/ Cardinality(hist.batch) <= max_frames THEN {}
    ELSE {id \in hist.batch :
             Cardinality({later \in hist.batch : later >= id}) > max_frames}

\* C28 as stated: when execute_deferred has returned, the commands of the
\* batch handed to the backend are exactly those the frame cap does not
\* drop (all of them without a cap, the N most recent with a cap of N), in
\* recording order, and a dropped command is never handed over.
C28_CapAloneDecides ==
    /\ ExecuteReturned => hist.batch \cap Called = hist.batch \ CapDropped
    /\ \A i, j \in 1..Len(hist.calls) : i < j => hist.calls[i] < hist.calls[j]
    /\ hist.skipped \cap Called = {}

\* C28, amended: the frame cap decides which commands are dropped (none
\* without a cap, all but the N most recent with a cap of N), and a dropped
\* command is never handed to the backend nor left in the queue; the others
\* are handed over in recording order, up to and including the first whose
\* render call fails, and execute_deferred returns an error when it stops
\* there.
C28_CapDropsOldestFailureStopsRest ==
    /\ ExecuteReturned =>
         /\ hist.batch \cap hist.skipped = CapDropped
         /\ \A id \in hist.batch \ CapDropped :
               \/ id \in Called
               \/ /\ ret.status # "VK_SUCCESS"
                  /\ \E f \in (hist.batch \cap RenderFailed) \ CapDropped : f < id
         /\ \A i \in 1..Len(queue) : queue[i].id \notin CapDropped
    /\ \A i, j \in 1..Len(hist.calls) : i < j => hist.calls[i] < hist.calls[j]
    /\ hist.skipped \cap Called = {}

\* with a cap of one, a submission of two commands handed over the later one
C28_Witness ==
    /\ ExecuteReturned /\ max_frames > 0
    /\ Cardinality(hist.batch) > max_frames
    /\ CapDropped # {}
    /\ hist.batch \cap Called = hist.batch \ CapDropped

(***************************************************************************)
(* The translation of the reference slots of a decode into the backend's   *)
(* reference picture list, on a cache filled call by call.  A slot is the  *)
(* image of its picture resource, 0 when it has none.  ret keeps the       *)
(* slots, the list built (each entry with the index of its slot), the      *)
(* flattened list of the VA-API slice parameters and the bridge state the  *)
(* call started from.                                                      *)
(***************************************************************************)
MaxSlots == 18
MaxTranslateOps == 3
MaxDpbEntries == 16
MaxRefPicListEntries == 32

\* the numbers of reference slots of a call: a few, and around the size of
\* the list
SlotCounts == (0..2) \cup (MaxDpbEntries..MaxSlots)

\* the reference slots of a call: n slots whose images step through
\* 0..NumImages from offset
SlotPattern(n, offset, stride) ==
    [i \in 1..n |-> (offset + (i - 1) * stride) % (NumImages + 1)]

\* a loop that never finds the list full
DpbHasRoom_always(ref_idx) == TRUE

\* the loop condition ref_idx < 16 (dpb_idx < 16)
DpbHasRoom(ref_idx) == ref_idx < MaxDpbEntries

\* the loop over the reference slots of anv_vdpau_translate_h264_picture_params
\* and of anv_vaapi_translate_h264_picture_params: slots without a resource
\* and slots whose image has no cached surface are skipped; the VDPAU lookup
\* is anv_vdpau_lookup_surface, which stamps the entry it finds
RECURSIVE H264ReferenceFrames(_, _, _, _, _)
H264ReferenceFrames(b, s, slots, i, acc) ==
    IF i > Len(slots) \/ ~DpbHasRoom(Len(acc)) THEN [s |-> s, frames |-> acc]
    ELSE IF slots[i] = 0 THEN H264ReferenceFrames(b, s, slots, i + 1, acc)
    ELSE LET h  == LookupSurface(s, slots[i])
             s1 == IF b = "vdpau" THEN anv_vdpau_lookup_surface(s, slots[i]) ELSE s
         IN  H264ReferenceFrames(b, s1, slots, i + 1,
                 IF h = VDP_INVALID_HANDLE THEN acc
                 ELSE Append(acc, [slot |-> i, surface |-> h]))

\* anv_vaapi_translate_h264_slice_params: RefPicList0 and RefPicList1 are the
\* valid entries of ReferenceFrames, while ref_count < 32
RefPicList(frames) == SubSeq(frames, 1, Min2(Len(frames), MaxRefPicListEntries))

\* the translation of the picture parameters of one decode
anv_translate_h264_picture_params_call ==
    /\ session.state = "alive" /\ ncmds < MaxTranslateOps
    /\ \E n \in SlotCounts, offset \in 0..NumImages, stride \in 0..1 :
         LET slots == SlotPattern(n, offset, stride)
             r     == H264ReferenceFrames(backend, session, slots, 1, <<>>)
         IN  /\ session' = r.s
             /\ ret' = [op |-> "translate", slots |-> slots, frames |-> r.frames,
                        RefPicList0 |-> IF backend = "vaapi"
                                        THEN RefPicList(r.frames) ELSE <<>>,
                        before |-> Bridge]
    /\ ncmds' = ncmds + 1
    /\ UNCHANGED <<backend, max_frames, world, queue, pc, hist, gvars, dvars>>

InitTranslate == InitCache

NextTranslate ==
    \/ anv_vdpau_add_surface_mapping_call
    \/ anv_vaapi_add_surface_mapping_call
    \/ anv_translate_h264_picture_params_call

SpecTranslate == InitTranslate /\ [][NextTranslate]_vars

\* C29: every entry of the reference picture list comes from a slot whose
\* image had a cached surface and carries that surface, the entries are in
\* the order of their slots, there are at most 16 of them, and the
\* flattened VA-API list has at most 32 entries, all taken from the list.
C29_ReferenceListResolvedOrderedBounded ==
    ret.op = "translate" =>
        /\ \A k \in 1..Len(ret.frames) :
              /\ ret.slots[ret.frames[k].slot] # 0
              /\ ret.frames[k].surface # VDP_INVALID_HANDLE
              /\ ret.frames[k].surface =
                    LookupSurface(ret.before.s, ret.slots[ret.frames[k].slot])
        /\ \A j, k \in 1..Len(ret.frames) :
              j < k => ret.frames[j].slot < ret.frames[k].slot
        /\ Len(ret.frames) <= MaxDpbEntries
        /\ Len(ret.RefPicList0) <= MaxRefPicListEntries
        /\ \A k \in 1..Len(ret.RefPicList0) : ret.RefPicList0[k] = ret.frames[k]

\* more than 16 slots resolved and the list stopped at 16
C29_Witness ==
    /\ ret.op = "translate"
    /\ Cardinality({i \in 1..Len(ret.slots) :
                       /\ ret.slots[i] # 0
                       /\ LookupSurface(ret.before.s, ret.slots[i]) # VDP_INVALID_HANDLE})
          > MaxDpbEntries
    /\ Len(ret.frames) = MaxDpbEntries

\* C30: a translation leaves the surface cache of the session as it was,
\* handles and timestamps.
C30_TranslateLeavesCacheAlone ==
    ret.op = "translate" => session = ret.before.s

\* C31: a backend render call is made only by a step of execute_deferred;
\* a step of decode_frame at most appends a command to the queue.
C31_RenderOnlyAtSubmit ==
    [][hist'.calls # hist.calls => ret'.op = "execute"]_vars

\* a decode_frame has queued a command and no render call has been made
C31_Witness ==
    /\ ret.op = "decode" /\ ret.status = "VK_SUCCESS"
    /\ queue # <<>>
    /\ hist.calls = <<>>

(***************************************************************************)
(* vdpPresentationQueueCreate of the bundled software backend, called by   *)
(* several threads, each on a device and a target of its own (so that no   *)
(* handle is shared between the callers).  The test of the global async_q  *)
(* and the two statements that follow it are separate steps: the function  *)
(* takes no lock around them.                                              *)
(***************************************************************************)

\* entry, the two handle_acquire, calloc and handle_insert (lines 468-500)
vdpPresentationQueueCreate_insert(t) ==
    /\ pq.cpc[t] = "idle" /\ pq.calls[t] < MaxCalls
    /\ \E calloc_ok \in BOOLEAN :
         IF calloc_ok
         THEN pq' = [pq EXCEPT !.calls[t] = @ + 1, !.handles = @ + 1,
                               !.cpc[t] = "check", !.status[t] = "none"]
         ELSE pq' = [pq EXCEPT !.calls[t] = @ + 1,
                               !.status[t] = "VDP_STATUS_RESOURCES"]
    /\ UNCHANGED <<va_display, vdpau_mutex, rpc, raced, bvars, gvars>>

\* if (!async_q) (line 503)
vdpPresentationQueueCreate_check(t) ==
    /\ pq.cpc[t] = "check"
    /\ pq' = [pq EXCEPT !.cpc[t] = IF pq.async_q = 0 THEN "new" ELSE "release"]
    /\ UNCHANGED <<va_display, vdpau_mutex, rpc, raced, bvars, gvars>>

\* async_q = g_async_queue_new() (line 504)
vdpPresentationQueueCreate_new(t) ==
    /\ pq.cpc[t] = "new"
    /\ pq' = [pq EXCEPT !.queues = @ + 1, !.async_q = pq.queues + 1,
                        !.cpc[t] = "spawn"]
    /\ UNCHANGED <<va_display, vdpau_mutex, rpc, raced, bvars, gvars>>

\* pthread_create(&presentation_thread_id, ...) (line 505)
vdpPresentationQueueCreate_spawn(t) ==
    /\ pq.cpc[t] = "spawn"
    /\ pq' = [pq EXCEPT !.threads = @ + 1, !.cpc[t] = "release"]
    /\ UNCHANGED <<va_display, vdpau_mutex, rpc, raced, bvars, gvars>>

\* the two handle_release and the return (lines 508-511)
vdpPresentationQueueCreate_release(t) ==
    /\ pq.cpc[t] = "release"
    /\ pq' = [pq EXCEPT !.cpc[t] = "idle", !.status[t] = "VDP_STATUS_OK"]
    /\ UNCHANGED <<va_display, vdpau_mutex, rpc, raced, bvars, gvars>>

InitPqCreate ==
    /\ backend = "vdpau"
    /\ max_frames = 0
    /\ BridgeIdle
    /\ GdIdle
    /\ DvIdle

NextPqCreate ==
    \E t \in Threads :
        \/ vdpPresentationQueueCreate_insert(t)
        \/ vdpPresentationQueueCreate_check(t)
        \/ vdpPresentationQueueCreate_new(t)
        \/ vdpPresentationQueueCreate_spawn(t)
        \/ vdpPresentationQueueCreate_release(t)

SpecPqCreate == InitPqCreate /\ [][NextPqCreate]_vars

\* C32: however the calls of vdpPresentationQueueCreate interleave, at most
\* one presentation thread is started and at most one async queue is created.
C32_OnePresentationThread ==
    /\ pq.threads <= 1
    /\ pq.queues <= 1

(***************************************************************************)
(* The presentation thread of the bundled software backend and the calls   *)
(* that feed it.  The thread's sorted queue int_q is private to it, the    *)
(* async queue and the surfaces' status are accessed under their own       *)
(* locks, and an iteration reads the clock once: an iteration of the loop  *)
(* is one step.                                                            *)
(***************************************************************************)

\* vdptime2timespec (lines 46-53)
vdptime2timespec(t) ==
    [tv_sec |-> t \div (1000 * 1000 * 1000), tv_nsec |-> t % (1000 * 1000 * 1000)]

\* C's integer division, which truncates towards zero
TruncDiv(a, b) == IF a >= 0 THEN a \div b ELSE -((-a) \div b)

\* the timeout of a task in microseconds (lines 345-346, 366-367)
TimeoutUs(when, now) ==
    (when.tv_sec - now.tv_sec) * 1000 * 1000
        + TruncDiv(when.tv_nsec - now.tv_nsec, NsPerUs)

\* compare_func (lines 313-329)
compare_func(task_a, task_b) ==
    IF task_a.when.tv_sec < task_b.when.tv_sec THEN -1
    ELSE IF task_a.when.tv_sec > task_b.when.tv_sec THEN 1
    ELSE IF task_a.when.tv_nsec < task_b.when.tv_nsec THEN -1
    ELSE IF task_a.when.tv_nsec > task_b.when.tv_nsec THEN 1
    ELSE 0

\* g_queue_insert_sorted (line 456): the task goes before the first one that compares greater
InsertSorted(q, task) ==
    LET after == {i \in 1..Len(q) : compare_func(q[i], task) > 0}
        at == IF after = {} THEN Len(q) + 1
              ELSE CHOOSE i \in after : \A j \in after : i <= j
    IN  SubSeq(q, 1, at - 1) \o <<task>> \o SubSeq(q, at, Len(q))

\* the scan for the newest ready task (lines 359-379): q is int_q after the head
\* was popped; the result is an index of q, or 0 for the popped head
RECURSIVE NewestReady(_, _, _, _, _)
NewestReady(q, i, now, best, best_timeout) ==
    IF i > Len(q) THEN best
    ELSE LET next_timeout == TimeoutUs(q[i].when, now)
         IN  IF next_timeout <= 0
             THEN IF next_timeout > best_timeout
                  THEN NewestReady(q, i + 1, now, i, next_timeout)
                  ELSE NewestReady(q, i + 1, now, best, best_timeout)
             ELSE best

\* vdpPresentationQueueDisplay (lines 623-698): the check_compositor result is
\* the environment's; with a compositor the task is due at once
vdpPresentationQueueDisplay_call ==
    /\ pq.displays < MaxDisplays
    /\ \E presentation_queue \in pq.live, earliest \in 0..MaxTicks, detected \in {0, 1} :
         LET comp == IF pq.compositor_detected = -1 THEN detected
                     ELSE pq.compositor_detected
             surface == pq.displays + 1
             task == [wipe_tasks |-> 0, queue_id |-> presentation_queue,
                      surface |-> surface,
                      when |-> IF comp # 0 THEN vdptime2timespec(pq.now)
                               ELSE vdptime2timespec(earliest * TickNs)]
         IN  pq' = [pq EXCEPT !.compositor_detected = comp,
                              !.displays = surface,
                              !.surf[surface] = "QUEUED",
                              !.aq = Append(@, task)]
    /\ UNCHANGED <<va_display, vdpau_mutex, rpc, raced, bvars, gvars>>

\* vdpPresentationQueueDestroy (lines 514-535)
vdpPresentationQueueDestroy_call ==
    /\ \E presentation_queue \in pq.live :
         LET task == [wipe_tasks |-> 1, queue_id |-> presentation_queue,
                      surface |-> 0, when |-> vdptime2timespec(0)]
         IN  pq' = [pq EXCEPT !.aq = Append(@, task),
                              !.live = @ \ {presentation_queue}]
    /\ UNCHANGED <<va_display, vdpau_mutex, rpc, raced, bvars, gvars>>

\* CLOCK_MONOTONIC advances between two readings (lines 344, 666)
clock_tick ==
    /\ pq.now < MaxTicks * TickNs
    /\ pq' = [pq EXCEPT !.now = @ + TickNs]
    /\ UNCHANGED <<va_display, vdpau_mutex, rpc, raced, bvars, gvars>>

\* the surfaces of a set of tasks marked idle (lines 384-393, 408-416)
MarkIdle(surf, q, idx) ==
    [s \in OutputSurfaces |->
        IF \E i \in idx : q[i].surface = s THEN "IDLE" ELSE surf[s]]

\* one iteration of the loop of presentation_thread (lines 337-458)
presentation_thread_iteration ==
    /\ pq.threads > 0
    /\ LET now == vdptime2timespec(pq.now)
           ready == pq.int_q # <<>> /\ TimeoutUs(Head(pq.int_q).when, now) <= 0
       IN  IF ready
           THEN LET task == Head(pq.int_q)
                    rest == Tail(pq.int_q)
                    newest == NewestReady(rest, 1, now, 0, TimeoutUs(task.when, now))
                IN  IF newest # 0
                    THEN \* the head and all tasks before the newest are dropped
                         pq' = [pq EXCEPT
                                  !.int_q = SubSeq(rest, newest, Len(rest)),
                                  !.surf = MarkIdle(@, pq.int_q, 1..newest),
                                  !.last = [op |-> "drop", q |-> pq.int_q,
                                            now |-> pq.now, shown |-> 0,
                                            dropped |-> {pq.int_q[i].surface : i \in 1..newest}]]
                    ELSE \* do_presentation_queue_display (lines 223-311)
                         IF task.queue_id \in pq.live
                         THEN pq' = [pq EXCEPT
                                       !.int_q = rest,
                                       !.surf[task.surface] = "IDLE",
                                       !.shown = Append(@, task.surface),
                                       !.last = [op |-> "display", q |-> pq.int_q,
                                                 now |-> pq.now, shown |-> task.surface,
                                                 dropped |-> {}]]
                         ELSE pq' = [pq EXCEPT
                                       !.int_q = rest,
                                       !.last = [NoIteration EXCEPT !.op = "no_queue"]]
           ELSE \* g_async_queue_timeout_pop (line 440); it waits while async_q is empty
                /\ pq.aq # <<>>
                /\ LET task == Head(pq.aq)
                   IN  IF task.wipe_tasks = 1
                       THEN pq' = [pq EXCEPT
                                     !.aq = Tail(@),
                                     !.int_q = SelectSeq(@, LAMBDA x : x.queue_id # task.queue_id),
                                     !.last = [NoIteration EXCEPT !.op = "wipe"]]
                       ELSE pq' = [pq EXCEPT
                                     !.aq = Tail(@),
                                     !.int_q = InsertSorted(@, task),
                                     !.last = [NoIteration EXCEPT !.op = "insert"]]
    /\ UNCHANGED <<va_display, vdpau_mutex, rpc, raced, bvars, gvars>>

\* NumPq presentation queues were created by one thread, which started the
\* presentation thread
InitPresent ==
    /\ backend = "vdpau"
    /\ max_frames = 0
    /\ BridgeIdle
    /\ GdIdle
    /\ va_display = 0 /\ vdpau_mutex = 0 /\ raced = FALSE
    /\ rpc = [t \in Threads |-> "idle"]
    /\ pq = [NoPq EXCEPT !.async_q = 1, !.queues = 1, !.threads = 1,
                         !.handles = NumPq, !.live = 1..NumPq]

NextPresent ==
    \/ vdpPresentationQueueDisplay_call
    \/ vdpPresentationQueueDestroy_call
    \/ clock_tick
    \/ presentation_thread_iteration

SpecPresent == InitPresent /\ [][NextPresent]_vars

\* the presentation thread keeps running and time keeps passing
SpecPresentFair ==
    /\ SpecPresent
    /\ WF_vars(presentation_thread_iteration)
    /\ WF_vars(clock_tick)

\* C38: a surface that vdpPresentationQueueDisplay put QUEUED eventually is
\* IDLE again, whether or not its presentation queue is destroyed meanwhile.
C38_QueuedEventuallyIdle ==
    \A s \in OutputSurfaces : (pq.surf[s] = "QUEUED") ~> (pq.surf[s] = "IDLE")

\* timespec2vdptime (lines 38-43)
timespec2vdptime(ts) == ts.tv_sec * 1000 * 1000 * 1000 + ts.tv_nsec

\* the tasks of a sorted queue whose time has come at a clock reading
DueAt(q, now) == {i \in 1..Len(q) : timespec2vdptime(q[i].when) <= now}

\* C39: when the presentation thread handles a due head while later tasks
\* of the sorted queue are due as well, it displays only the newest due
\* task; the older due tasks leave the queue undisplayed with their surface
\* IDLE; and a displayed task has no earlier task in the sorted queue.
C39_OnlyNewestDueDisplayed ==
    LET l == pq.last
        due == DueAt(l.q, l.now)
        older == {i \in due : \E j \in due : compare_func(l.q[i], l.q[j]) < 0}
    IN  /\ l.op = "display" => 1 \notin older
        /\ l.op = "drop" =>
              /\ \A i \in older : l.q[i].surface \in l.dropped
              /\ \A s \in l.dropped :
                    /\ pq.surf[s] = "IDLE"
                    /\ \A k \in 1..Len(pq.shown) : pq.shown[k] # s
        /\ l.op = "display" =>
              \A i \in 1..Len(l.q) : compare_func(l.q[1], l.q[i]) <= 0

\* C33: an image that was just looked up in a full VDPAU cache survives the
\* insert of a new image that follows the lookup: the insert evicts another
\* entry (with two entries A and B added in this order, B).
C33_LookedUpSurvivesInsert ==
    (/\ backend = "vdpau" /\ ret.op = "add"
     /\ hist.looked # 0 /\ hist.at = ret.before.s.frame_counter
     /\ Len(ret.before.s.surface_map) = ret.before.s.surface_map_capacity
     /\ FindImage(ret.before.s.surface_map, ret.image, 1) = 0)
    => FindImage(session.surface_map, hist.looked, 1) # 0

\* the images a decode_frame call names: its destination and its references
CallImages(dst, refs) == {dst} \cup {refs[i] : i \in 1..Len(refs)}

\* C34: a VDPAU decode_frame whose images fit the cache together leaves every
\* surface handle of the command it queued live: no insert of the call evicts
\* a surface the call looked up or inserted before.
C34_QueuedHandlesLiveAtReturn ==
    (/\ backend = "vdpau" /\ ret.op = "decode" /\ ret.status = "VK_SUCCESS"
     /\ Cardinality(CallImages(ret.dst, ret.refs)) <= session.surface_map_capacity)
    => LET cmd == queue[Len(queue)]
       IN  /\ SurfaceLive(world, cmd.target_surface)
           /\ \A i \in 1..Len(cmd.ref_surfaces) : SurfaceLive(world, cmd.ref_surfaces[i])

\* C35: while a recording goes on, the decoder handle of every queued VDPAU
\* command names a live decoder: no later decode_frame of the recording
\* destroys the decoder a queued command holds.
C35_QueuedDecoderLive ==
    backend = "vdpau" =>
        \A i \in 1..Len(queue) : DecoderLive(world, queue[i].decoder)

\* C36: every surface handle stored in the surface cache of a live session
\* names a surface that was not destroyed.
C36_CachedSurfacesLive ==
    session.state = "alive" =>
        \A i \in 1..Len(session.surface_map) :
            SurfaceLive(world, session.surface_map[i].surface)

(***************************************************************************)
(* vdpDecoderRender of the bundled software backend, on arguments and      *)
(* failures of the VA-API driver drawn from the cases the code tells       *)
(* apart.  ret keeps the arguments, the status of the H.264 path when it   *)
(* ran, and the status returned.                                           *)
(***************************************************************************)

\* the places where vdpDecoderRender_h264 and h264_translate_reference_frames
\* leave with an error, and "none"
H264RenderSteps ==
    {"none", "no_render_target", "ref_surface_handle", "pic_param_buf",
     "iq_matrix_buf", "begin_picture", "render_pic_param", "render_iq_matrix",
     "bitstream_too_big", "bitstream_realloc", "no_nal_header", "slices_realloc",
     "slice_param_buf", "render_slice_param", "slice_data_buf",
     "render_slice_data", "end_picture"}

DecoderProfiles ==
    {"VDP_DECODER_PROFILE_H264_CONSTRAINED_BASELINE", "VDP_DECODER_PROFILE_H264_BASELINE",
     "VDP_DECODER_PROFILE_H264_MAIN", "VDP_DECODER_PROFILE_H264_HIGH",
     "VDP_DECODER_PROFILE_MPEG2_MAIN"}

\* vdpDecoderRender_h264 (lines 528-855): its err_code for each step
vdpDecoderRender_h264(step) ==
    CASE step = "none" -> "VDP_STATUS_OK"
      [] step \in {"no_render_target", "bitstream_too_big", "bitstream_realloc",
                   "slices_realloc"} -> "VDP_STATUS_RESOURCES"
      [] OTHER -> "VDP_STATUS_ERROR"

\* vdpDecoderRender (lines 857-892): the two pointers, the two handles
\* (TRUE when handle_acquire finds the object), the decoder's profile
vdpDecoderRender(picture_info, bitstream_buffers, decoderData, dstSurfData, profile, step) ==
    IF ~picture_info \/ ~bitstream_buffers
    THEN [status |-> "VDP_STATUS_INVALID_POINTER", h264 |-> "not_run"]
    ELSE IF ~decoderData \/ ~dstSurfData
    THEN [status |-> "VDP_STATUS_INVALID_HANDLE", h264 |-> "not_run"]
    ELSE IF profile # "VDP_DECODER_PROFILE_MPEG2_MAIN"
    THEN \* the exit code of vdpDecoderRender_h264 is dropped (lines 877-879, 886)
         [status |-> "VDP_STATUS_OK", h264 |-> vdpDecoderRender_h264(step)]
    ELSE [status |-> "VDP_STATUS_NO_IMPLEMENTATION", h264 |-> "not_run"]

vdpDecoderRender_call ==
    /\ \E picture_info, bitstream_buffers, decoderData, dstSurfData \in BOOLEAN,
          profile \in DecoderProfiles, step \in H264RenderSteps :
         LET r == vdpDecoderRender(picture_info, bitstream_buffers, decoderData,
                                   dstSurfData, profile, step)
         IN  ret' = [op |-> "render", status |-> r.status, h264 |-> r.h264,
                     step |-> step, profile |-> profile,
                     args |-> <<picture_info, bitstream_buffers, decoderData, dstSurfData>>]
    /\ UNCHANGED <<backend, max_frames, session, world, queue, ncmds, pc, hist,
                   gvars, dvars>>

InitRender == InitPqCreate

NextRender == vdpDecoderRender_call

SpecRender == InitRender /\ [][NextRender]_vars

\* C37: vdpDecoderRender returns a status other than VDP_STATUS_OK whenever
\* the H.264 render path it ran failed.
C37_RenderFailureReported ==
    (ret.op = "render" /\ ret.h264 \notin {"not_run", "VDP_STATUS_OK"})
    => ret.status # "VDP_STATUS_OK"

(***************************************************************************)
(* The staging buffers of the CPU copy.  hist is the C heap here: the next *)
(* block malloc hands out, how often each block was freed, and whether a   *)
(* freed block was handed to vdp_video_surface_get_bits_ycbcr.             *)
(***************************************************************************)
\* CPU copies made on one session
MaxCopies == 3
\* size of the UV plane of the largest image, in pages; the Y plane is twice that
MaxPlanePages == 2
HeapBlocks == 1..(2 * MaxCopies)

NoHeap == [next |-> 1, frees |-> [b \in HeapBlocks |-> 0], stale_use |-> FALSE]

\* free(ptr)
HeapFree(h, ptr) == [h EXCEPT !.frees[ptr] = Min2(@ + 1, 2)]

\* a successful realloc(ptr, size) that moves the block; realloc(NULL) is malloc
HeapRealloc(h, ptr) ==
    [(IF ptr = 0 THEN h ELSE HeapFree(h, ptr)) EXCEPT !.next = @ + 1]

CopyFailPoints ==
    {"none", "no_bo", "map_fail", "y_realloc", "uv_realloc", "get_bits", "bounds"}

\* anv_vdpau_copy_surface_to_image (lines 1245-1464) as far as the staging
\* buffers go: uv_pages is the page-aligned size of the UV plane
CpuCopyBuffers(s, h, uv_pages, fail) ==
    LET y_alloc_size == 2 * uv_pages
        uv_alloc_size == uv_pages
        grow_y == s.linear_y_buffer_size < y_alloc_size
        grow_uv == s.linear_uv_buffer_size < uv_alloc_size
    IN  IF fail = "no_bo" THEN [s |-> s, h |-> h, result |-> "VK_ERROR_INITIALIZATION_FAILED"]
        ELSE IF fail = "map_fail"
        THEN [s |-> s, h |-> h, result |-> "VK_ERROR_MEMORY_MAP_FAILED"]
        ELSE IF grow_y /\ fail = "y_realloc"
        THEN [s |-> s, h |-> h, result |-> "VK_ERROR_OUT_OF_HOST_MEMORY"]
        ELSE
        LET s1 == IF grow_y
                  THEN [s EXCEPT !.linear_y_buffer = h.next,
                                 !.linear_y_buffer_size = y_alloc_size]
                  ELSE s
            h1 == IF grow_y THEN HeapRealloc(h, s.linear_y_buffer) ELSE h
        IN  IF grow_uv /\ fail = "uv_realloc"
            THEN [s |-> s1, h |-> h1, result |-> "VK_ERROR_OUT_OF_HOST_MEMORY"]
            ELSE
            LET s2 == IF grow_uv
                      THEN [s1 EXCEPT !.linear_uv_buffer = h1.next,
                                      !.linear_uv_buffer_size = uv_alloc_size]
                      ELSE s1
                h2 == IF grow_uv THEN HeapRealloc(h1, s1.linear_uv_buffer) ELSE h1
                \* vdp_video_surface_get_bits_ycbcr writes to both buffers
                h3 == [h2 EXCEPT !.stale_use =
                          @ \/ h2.frees[s2.linear_y_buffer] > 0
                            \/ h2.frees[s2.linear_uv_buffer] > 0]
            IN  IF fail = "get_bits"
                THEN [s |-> s2, h |-> h3, result |-> "VK_ERROR_UNKNOWN"]
                ELSE IF fail = "bounds"
                THEN \* free(linear_y); free(linear_uv) (lines 1410-1411)
                     [s |-> s2,
                      h |-> HeapFree(HeapFree(h3, s2.linear_y_buffer), s2.linear_uv_buffer),
                      result |-> "VK_ERROR_UNKNOWN"]
                ELSE [s |-> s2, h |-> h3, result |-> "VK_SUCCESS"]

anv_vdpau_copy_surface_to_image_call ==
    /\ backend = "vdpau" /\ session.state = "alive" /\ ncmds < MaxCopies
    /\ \E uv_pages \in 1..MaxPlanePages, fail \in CopyFailPoints :
         LET c == CpuCopyBuffers(session, hist, uv_pages, fail)
         IN  /\ session' = c.s
             /\ hist' = c.h
             /\ ret' = [op |-> "cpu_copy", status |-> c.result, fail |-> fail,
                        uv_pages |-> uv_pages]
    /\ ncmds' = ncmds + 1
    /\ UNCHANGED <<backend, max_frames, world, queue, pc, gvars, dvars>>

\* anv_vdpau_session_destroy (lines 498-532), with the frees of the buffers
anv_vdpau_session_destroy_buffers ==
    /\ backend = "vdpau" /\ session.state = "alive"
    /\ world' = LET w1 == DestroySurfaces(world, SurfacesOf(session.surface_map))
                IN  IF session.vdp_decoder # 0
                    THEN DestroyDecoder(w1, session.vdp_decoder) ELSE w1
    /\ hist' = LET h1 == IF session.linear_y_buffer # 0
                         THEN HeapFree(hist, session.linear_y_buffer) ELSE hist
               IN  IF session.linear_uv_buffer # 0
                   THEN HeapFree(h1, session.linear_uv_buffer) ELSE h1
    /\ session' = [session EXCEPT !.state = "destroyed"]
    /\ ret' = [op |-> "destroy", status |-> "VK_SUCCESS", fail |-> "none", uv_pages |-> 0]
    /\ UNCHANGED <<backend, max_frames, queue, ncmds, pc, gvars, dvars>>

\* a session just created (lines 476-479: no buffer yet)
InitBuffers ==
    /\ backend = "vdpau"
    /\ max_frames = 0
    /\ session = [NoSession EXCEPT !.state = "alive",
                                   !.surface_map_capacity = CapacityFor(MaxDpbSlots)]
    /\ world = [nextSurf |-> 1, destroys |-> [b \in SurfIds |-> 0],
                nextDec |-> 1, decDestroyed |-> {}, va_display |-> FALSE]
    /\ queue = <<>>
    /\ ncmds = 0
    /\ pc = "running"
    /\ hist = NoHeap
    /\ ret = [op |-> "create", status |-> "VK_SUCCESS", fail |-> "none", uv_pages |-> 0]
    /\ GdIdle
    /\ DvIdle

NextBuffers ==
    \/ anv_vdpau_copy_surface_to_image_call
    \/ anv_vdpau_session_destroy_buffers

SpecBuffers == InitBuffers /\ [][NextBuffers]_vars

\* C40: the staging buffers are freed by the session's destruction only:
\* while the session lives each buffer pointer is NULL or names a block that
\* was not freed, no copy hands a freed block on, and no block is freed twice.
C40_BuffersFreedOnlyAtDestroy ==
    /\ session.state = "alive" =>
          /\ session.linear_y_buffer = 0 \/ hist.frees[session.linear_y_buffer] = 0
          /\ session.linear_uv_buffer = 0 \/ hist.frees[session.linear_uv_buffer] = 0
    /\ ~hist.stale_use
    /\ \A b \in HeapBlocks : hist.frees[b] <= 1

=============================================================================
